---- MODULE Spec2Model ----
(***************************************************************************)
(* Orbit visualizer: the Scene component's frame loop, its reset and trail *)
(* effects, the zustand store that configures it, and the integrators of   *)
(* lib/physics it calls.                                                   *)
(*                                                                         *)
(* Numbers.  The program computes in IEEE doubles and stores trail samples *)
(* in a Float32Array.  A double is modelled as a decimal floating point    *)
(* number <<m, e>> standing for m * 10^e, with a mantissa of DIGITS        *)
(* decimal digits (or <<0, 0>> for zero); every arithmetic operation       *)
(* rounds its exact result toward zero to that precision, as the program's *)
(* operations round to 53 bits.  A float32 keeps one digit less.           *)
(***************************************************************************)
EXTENDS Integers, Sequences, FiniteSets, TLC

\* ------------------------------------------------------------------------
\* Floating point arithmetic
\* ------------------------------------------------------------------------

\* Decimal digits of a double's mantissa in the model.
DIGITS == 3

\* 10^n for 0 <= n <= 9, the powers of ten a 32-bit integer holds.
Pow10(n) ==
  <<1, 10, 100, 1000, 10000, 100000, 1000000, 10000000, 100000000,
    1000000000>>[n + 1]

Abs(n) == IF n < 0 THEN -n ELSE n
Sgn(n) == IF n < 0 THEN -1 ELSE IF n > 0 THEN 1 ELSE 0

\* Integer division rounding toward zero.
TruncDiv(n, d) == Sgn(n) * (Abs(n) \div d)

FZero == <<0, 0>>

\* The number of decimal digits of n >= 1.
NumDigits(n) ==
  IF n < 100000
  THEN IF n < 100 THEN (IF n < 10 THEN 1 ELSE 2)
       ELSE IF n < 1000 THEN 3 ELSE IF n < 10000 THEN 4 ELSE 5
  ELSE IF n < 10000000 THEN (IF n < 1000000 THEN 6 ELSE 7)
       ELSE IF n < 100000000 THEN 8 ELSE IF n < 1000000000 THEN 9 ELSE 10

\* m * 10^e with the mantissa shifted right by s digits (left when s < 0),
\* digits shifted out being dropped.
Shift(m, e, s) ==
  IF s > 0 THEN <<TruncDiv(m, Pow10(s)), e + s>> ELSE <<m * Pow10(-s), e + s>>

\* Round m * 10^e toward zero to a DIGITS-digit mantissa.
Norm(m, e) == IF m = 0 THEN FZero ELSE Shift(m, e, NumDigits(Abs(m)) - DIGITS)

\* The double nearest (toward zero) to the integer n: a number literal.
FInt(n) == Norm(n, 0)

\* The double nearest (toward zero) to n / 10^k: a decimal literal.
FDec(n, k) == Norm(n, -k)

FNeg(a) == <<-a[1], a[2]>>

\* hi + lo for nonzero operands with hi's exponent the larger one.  The
\* smaller operand is lost when it lies below the precision of the larger.
AddAligned(hi, lo) ==
  IF hi[2] - lo[2] > DIGITS + 1 THEN hi
  ELSE Norm(hi[1] * Pow10(hi[2] - lo[2]) + lo[1], lo[2])

\* a + b
FAdd(a, b) ==
  IF a[1] = 0 THEN b
  ELSE IF b[1] = 0 THEN a
  ELSE IF a[2] >= b[2] THEN AddAligned(a, b) ELSE AddAligned(b, a)

\* a - b
FSub(a, b) == IF b[1] = 0 THEN a ELSE FAdd(a, <<-b[1], b[2]>>)

\* a * b
FMul(a, b) ==
  IF a[1] = 0 \/ b[1] = 0 THEN FZero ELSE Norm(a[1] * b[1], a[2] + b[2])

\* a / b, b # 0.  (The program never divides by zero on the modelled
\* paths; a zero divisor is an evaluation error here.)
FDiv(a, b) ==
  IF b[1] # 0 /\ a[1] = 0 THEN FZero
  ELSE Norm(TruncDiv(a[1] * Pow10(DIGITS + 1), Abs(b[1])) * Sgn(b[1]),
            a[2] - b[2] - (DIGITS + 1))

\* a < b, a = 0
FLt(a, b) == FSub(a, b)[1] < 0
FIsZero(a) == a[1] = 0

\* Math.min
FMin(a, b) == IF FLt(b, a) THEN b ELSE a
FMax(a, b) == IF FLt(a, b) THEN b ELSE a

\* The largest h in 1..99 with (h * u)^2 <= n, for u^2 <= n < (100 * u)^2.
SqrtHi(n, u) ==
  CHOOSE h \in 1..99 : (h * u) * (h * u) <= n /\ ((h + 1) * u) * ((h + 1) * u) > n

\* The largest r in base..(base + u - 1) with r^2 <= n.
SqrtLo(n, base, u) ==
  CHOOSE r \in base..(base + u - 1) : r * r <= n /\ (r + 1) * (r + 1) > n

\* Largest r with r * r <= n, for n of 2 * DIGITS - 1 or 2 * DIGITS digits:
\* r has DIGITS digits.
ISqrt(n) == SqrtLo(n, SqrtHi(n, Pow10(DIGITS - 2)) * Pow10(DIGITS - 2),
                   Pow10(DIGITS - 2))

\* The mantissa m (of DIGITS digits) scaled by 10^t
SqrtOf(m, e, t) == <<ISqrt(m * Pow10(t)), (e - t) \div 2>>

\* Math.sqrt(a), a >= 0: the mantissa is scaled by an exponent of the
\* parity of a's, to 2 * DIGITS - 1 or 2 * DIGITS digits.
FSqrt(a) ==
  IF a[1] <= 0 THEN FZero
  ELSE SqrtOf(a[1], a[2], IF (a[2] - DIGITS) % 2 = 0 THEN DIGITS ELSE DIGITS - 1)

\* Math.floor of a double, as an integer (used on trail lengths only, which
\* are small).
FFloor(a) ==
  IF a[2] >= 0 THEN a[1] * Pow10(a[2])
  ELSE IF -a[2] > DIGITS + 1 THEN (IF a[1] < 0 THEN -1 ELSE 0)
  ELSE a[1] \div Pow10(-a[2])

\* Storing a double into a Float32Array element rounds it to float32: one
\* mantissa digit is dropped.
ToFloat32(a) == IF a[1] = 0 THEN FZero ELSE <<TruncDiv(a[1], 10) * 10, a[2]>>

\* 3-vectors [x, y, z]
Vec3(x, y, z) == <<x, y, z>>
VZero == Vec3(FZero, FZero, FZero)
ToFloat32Vec(p) == Vec3(ToFloat32(p[1]), ToFloat32(p[2]), ToFloat32(p[3]))

\* ------------------------------------------------------------------------
\* lib/bodies: the body registry
\* ------------------------------------------------------------------------

\* How many rows of PLANETS the model instantiates (the program uses all 8).
NumPlanets == 4

G == FDec(29591, 8)
SOFTENING2 == FDec(1, 9)

\* PLANETS: id, name, color, mass (Msun), a (AU), visRadius, texture map.
PLANETS ==
  << [id |-> "mercury", name |-> "Mercury", color |-> "#9ca3af", mass |-> FDec(1651, 10),
      a |-> FDec(39, 2),   visRadius |-> FDec(6, 3),  texture |-> "/tex/planets/mercury.jpg"],
     [id |-> "venus",   name |-> "Venus",   color |-> "#fbbf24", mass |-> FDec(2447, 9),
      a |-> FDec(723, 3),  visRadius |-> FDec(8, 3),  texture |-> "/tex/planets/venus.jpg"],
     [id |-> "earth",   name |-> "Earth",   color |-> "#60a5fa", mass |-> FDec(3003, 9),
      a |-> FInt(1),       visRadius |-> FDec(9, 3),  texture |-> "/tex/planets/earth.jpg"],
     [id |-> "mars",    name |-> "Mars",    color |-> "#ef4444", mass |-> FDec(3213, 10),
      a |-> FDec(1524, 3), visRadius |-> FDec(7, 3),  texture |-> "/tex/planets/mars.jpg"],
     [id |-> "jupiter", name |-> "Jupiter", color |-> "#eab308", mass |-> FDec(9545, 7),
      a |-> FDec(5204, 3), visRadius |-> FDec(20, 3), texture |-> "/tex/planets/jupiter.jpg"],
     [id |-> "saturn",  name |-> "Saturn",  color |-> "#fde047", mass |-> FDec(2858, 7),
      a |-> FDec(958, 2),  visRadius |-> FDec(18, 3), texture |-> "/tex/planets/saturn.jpg"],
     [id |-> "uranus",  name |-> "Uranus",  color |-> "#22d3ee", mass |-> FDec(4365, 8),
      a |-> FDec(192, 1),  visRadius |-> FDec(16, 3), texture |-> "/tex/planets/uranus.jpg"],
     [id |-> "neptune", name |-> "Neptune", color |-> "#3b82f6", mass |-> FDec(5148, 8),
      a |-> FDec(3005, 2), visRadius |-> FDec(16, 3), texture |-> "/tex/planets/neptune.jpg"] >>

\* A Body value: position and velocity are 3-vectors of doubles.
Body(id, name, color, mass, position, velocity, radius, texture) ==
  [id |-> id, name |-> name, color |-> color, mass |-> mass,
   position |-> position, velocity |-> velocity, radius |-> radius,
   texture |-> texture]

\* makeCircularBodies(): the Sun at the origin, each planet on the +X axis
\* at its semi-major axis, all at rest.
makeCircularBodies ==
  << Body("sun", "Sun", "#f59e0b", FInt(1), VZero, VZero, FDec(22, 3),
          "/tex/planets/sun.jpg") >>
  \o [k \in 1..NumPlanets |->
        LET p == PLANETS[k]
        IN  Body(p.id, p.name, p.color, p.mass, Vec3(p.a, FZero, FZero), VZero,
                 p.visRadius, p.texture)]

\* bodies.findIndex(b => b.id === id), 1-based; 0 when absent.
FindIndex(bodies, id) ==
  IF \E i \in 1..Len(bodies) : bodies[i].id = id
  THEN CHOOSE i \in 1..Len(bodies) :
         bodies[i].id = id /\ \A j \in 1..(i - 1) : bodies[j].id # id
  ELSE 0

\* Faulty variant: the payload is pushed even when the array has one.
ensurePayload_AlwaysPush(bodies, startAt, v0) ==
  Append(bodies, Body("payload", "Payload", "#ff2d55", FZero, startAt, v0,
                      FDec(6, 3), "none"))

\* ensurePayload(bodies, startAt, v0): create or replace the zero-mass
\* payload (called with both optional arguments given).
ensurePayload(bodies, startAt, v0) ==
  LET i == FindIndex(bodies, "payload")
      payload == Body("payload", "Payload", "#ff2d55", FZero, startAt, v0,
                      FDec(6, 3), "none")
  IN  IF i >= 1 THEN [bodies EXCEPT ![i] = payload] ELSE Append(bodies, payload)

\* 42164_000 / 1.495978707e11
R_GEO_AU == FDiv(FInt(42164000), Norm(1495978707, 2))

\* Faulty variant: without an Earth the payload is spawned at the default
\* place of ensurePayload, [1, 0, 0], at rest.
ensurePayloadGEO_SpawnAnyway(bodies) ==
  LET e == FindIndex(bodies, "earth")
  IN  IF e = 0 THEN ensurePayload(bodies, Vec3(FInt(1), FZero, FZero), VZero)
      ELSE LET earth == bodies[e]
               pos   == Vec3(earth.position[1],
                             FAdd(earth.position[2], R_GEO_AU),
                             earth.position[3])
               vCirc == FSqrt(FDiv(FMul(G, earth.mass), R_GEO_AU))
               vel   == Vec3(FAdd(earth.velocity[1], vCirc),
                             earth.velocity[2], earth.velocity[3])
           IN  ensurePayload(bodies, pos, vel)

\* ensurePayloadGEO(bodies): (re)spawn the payload on a circular orbit
\* around Earth; nothing when there is no Earth.
ensurePayloadGEO(bodies) ==
  LET e == FindIndex(bodies, "earth")
  IN  IF e = 0 THEN bodies
      ELSE LET earth == bodies[e]
               pos   == Vec3(earth.position[1],
                             FAdd(earth.position[2], R_GEO_AU),
                             earth.position[3])
               vCirc == FSqrt(FDiv(FMul(G, earth.mass), R_GEO_AU))
               vel   == Vec3(FAdd(earth.velocity[1], vCirc),
                             earth.velocity[2], earth.velocity[3])
           IN  ensurePayload(bodies, pos, vel)

\* ------------------------------------------------------------------------
\* Evaluation helpers
\* ------------------------------------------------------------------------

\* const x = e; ... : F applied to the value of e, which is computed once
\* (and likewise for two or three values that do not depend on each other).
With(e, F(_)) == CHOOSE r \in {F(x) : x \in {e}} : TRUE
With2(e1, e2, F(_, _)) == CHOOSE r \in {F(x, y) : x \in {e1}, y \in {e2}} : TRUE
With3(e1, e2, e3, F(_, _, _)) ==
  CHOOSE r \in {F(x, y, z) : x \in {e1}, y \in {e2}, z \in {e3}} : TRUE

\* The array / the map with the elements of f, each computed once.
SeqOf(f) == f \o << >>
MapOf(f) == f @@ << >>

\* ------------------------------------------------------------------------
\* lib/physics: seeding, momentum, accelerations
\* ------------------------------------------------------------------------

\* Math.hypot(x, y, z)
Hypot(x, y, z) == FSqrt(FAdd(FAdd(FMul(x, x), FMul(y, y)), FMul(z, z)))

\* Left-to-right sum of f[1..n], as the accumulation loops compute it.
RECURSIVE SumTo(_, _)
SumTo(f, n) == IF n = 0 THEN FZero ELSE FAdd(SumTo(f, n - 1), f[n])

\* Faulty variant: the momentum is subtracted, not the mean velocity (the
\* division by mSum is missing).
zeroSystemMomentum_NoDivide(bodies) ==
  With(SumTo([i \in 1..Len(bodies) |-> bodies[i].mass], Len(bodies)), LAMBDA mSum :
    IF FIsZero(mSum) THEN bodies
    ELSE
  With3(SumTo([i \in 1..Len(bodies) |->
                 FMul(bodies[i].mass, bodies[i].velocity[1])], Len(bodies)),
        SumTo([i \in 1..Len(bodies) |->
                 FMul(bodies[i].mass, bodies[i].velocity[2])], Len(bodies)),
        SumTo([i \in 1..Len(bodies) |->
                 FMul(bodies[i].mass, bodies[i].velocity[3])], Len(bodies)),
        LAMBDA vx, vy, vz :
    SeqOf([i \in 1..Len(bodies) |->
             [bodies[i] EXCEPT !.velocity =
                Vec3(FSub(@[1], vx), FSub(@[2], vy), FSub(@[3], vz))]])))

\* zeroSystemMomentum(bodies): subtract the mass-weighted mean velocity
\* from every body; nothing when the total mass is 0.
zeroSystemMomentum(bodies) ==
  With(SumTo([i \in 1..Len(bodies) |-> bodies[i].mass], Len(bodies)), LAMBDA mSum :
    IF FIsZero(mSum) THEN bodies
    ELSE
  With3(FDiv(SumTo([i \in 1..Len(bodies) |->
                      FMul(bodies[i].mass, bodies[i].velocity[1])], Len(bodies)), mSum),
        FDiv(SumTo([i \in 1..Len(bodies) |->
                      FMul(bodies[i].mass, bodies[i].velocity[2])], Len(bodies)), mSum),
        FDiv(SumTo([i \in 1..Len(bodies) |->
                      FMul(bodies[i].mass, bodies[i].velocity[3])], Len(bodies)), mSum),
        LAMBDA vx, vy, vz :
    SeqOf([i \in 1..Len(bodies) |->
             [bodies[i] EXCEPT !.velocity =
                Vec3(FSub(@[1], vx), FSub(@[2], vy), FSub(@[3], vz))]])))

\* The velocity seedCircularVelocities gives a body at offset (rx, ry, rz)
\* from the sun, r > 0 being the offset's length: vmag along the tangent
\* (-ry, rx, 0) normalised by its length tlen, or by 1 if that is 0.
SeedVelocity(rx, ry, vmag, tlen, sg) ==
  Vec3(FMul(FMul(FDiv(FNeg(ry), tlen), vmag), sg),
       FMul(FMul(FDiv(rx, tlen), vmag), sg),
       FMul(FMul(FDiv(FZero, tlen), vmag), sg))

\* Math.hypot(tx, ty, tz) || 1
OrOne(h0) == IF FIsZero(h0) THEN FInt(1) ELSE h0

\* The body of seedCircularVelocities' loop for a body b other than sun.
SeedOne(b, sun, clockwise) ==
  With3(FSub(b.position[1], sun.position[1]),
        FSub(b.position[2], sun.position[2]),
        FSub(b.position[3], sun.position[3]), LAMBDA rx, ry, rz :
  With(Hypot(rx, ry, rz), LAMBDA r :
    IF FIsZero(r) THEN b
    ELSE [b EXCEPT !.velocity =
            SeedVelocity(rx, ry, FSqrt(FDiv(FMul(G, sun.mass), r)),
                         OrOne(Hypot(FNeg(ry), rx, FZero)),
                         IF clockwise THEN FInt(-1) ELSE FInt(1))]))

\* seedCircularVelocities(bodies, sunId, clockwise): give every other body
\* the circular speed around the body sunId, tangential in the XY plane;
\* nothing when sunId is absent.
seedCircularVelocities(bodies, sunId, clockwise) ==
  With(FindIndex(bodies, sunId), LAMBDA s :
    IF s = 0 THEN bodies
    ELSE SeqOf([i \in 1..Len(bodies) |->
                  IF i = s THEN bodies[i]
                  ELSE SeedOne(bodies[i], bodies[s], clockwise)]))

\* The tangent lib/physics.ts seeds along: (-ry, rx, 0), or (0, -rz, ry)
\* when that is the zero vector (the offset is parallel to the z axis).
SeedTangent(rx, ry, rz) ==
  IF FIsZero(Hypot(FNeg(ry), rx, FZero))
  THEN Vec3(FZero, FNeg(rz), ry)
  ELSE Vec3(FNeg(ry), rx, FZero)

\* The body of the loop of lib/physics.ts' seedCircularVelocities for a
\* body b other than sun: vmag along the normalised tangent.
SeedOneFallback(b, sun, clockwise) ==
  With3(FSub(b.position[1], sun.position[1]),
        FSub(b.position[2], sun.position[2]),
        FSub(b.position[3], sun.position[3]), LAMBDA rx, ry, rz :
  With(Hypot(rx, ry, rz), LAMBDA r :
    IF FIsZero(r) THEN b
    ELSE
  With3(FSqrt(FDiv(FMul(G, sun.mass), r)), SeedTangent(rx, ry, rz),
        IF clockwise THEN FInt(-1) ELSE FInt(1), LAMBDA vmag, t, sg :
  With(Hypot(t[1], t[2], t[3]), LAMBDA tlen :
    [b EXCEPT !.velocity =
       Vec3(FMul(FMul(FDiv(t[1], tlen), vmag), sg),
            FMul(FMul(FDiv(t[2], tlen), vmag), sg),
            FMul(FMul(FDiv(t[3], tlen), vmag), sg))]))))

\* seedCircularVelocities(bodies, sunId, clockwise) of lib/physics.ts: as
\* above, with the fallback tangent.
seedCircularVelocitiesFallback(bodies, sunId, clockwise) ==
  With(FindIndex(bodies, sunId), LAMBDA s :
    IF s = 0 THEN bodies
    ELSE SeqOf([i \in 1..Len(bodies) |->
                  IF i = s THEN bodies[i]
                  ELSE SeedOneFallback(bodies[i], bodies[s], clockwise)]))

\* v[c] + a[c] * s, v[c] - a[c] * s, v[c] * s for the three components
AddScaled(v, a, s) ==
  Vec3(FAdd(v[1], FMul(a[1], s)), FAdd(v[2], FMul(a[2], s)),
       FAdd(v[3], FMul(a[3], s)))
\* Faulty variant: the term is added where it is to be subtracted.
SubScaled_SameSign(v, a, s) ==
  Vec3(FAdd(v[1], FMul(a[1], s)), FAdd(v[2], FMul(a[2], s)),
       FAdd(v[3], FMul(a[3], s)))

\* v[c] -= a[c] * s
SubScaled(v, a, s) ==
  Vec3(FSub(v[1], FMul(a[1], s)), FSub(v[2], FMul(a[2], s)),
       FSub(v[3], FMul(a[3], s)))
Scale(v, s) == Vec3(FMul(v[1], s), FMul(v[2], s), FMul(v[3], s))

\* Faulty variant: the squared distance without the softening term.
SoftenedR2_Unsoftened(d) ==
  FAdd(FAdd(FMul(d[1], d[1]), FMul(d[2], d[2])), FMul(d[3], d[3]))

\* r2 = dx*dx + dy*dy + dz*dz + SOFTENING2
SoftenedR2(d) ==
  FAdd(FAdd(FAdd(FMul(d[1], d[1]), FMul(d[2], d[2])), FMul(d[3], d[3])), SOFTENING2)

\* invR3 = 1 / (Math.sqrt(r2) * r2)
InvR3(r2) == FDiv(FInt(1), FMul(FSqrt(r2), r2))

\* Faulty variant: the reaction on j is scaled by j's own mass
\* (s2 = f * bodies[j].mass * massScale).
PairStep_ReactionByOwnMass(bodies, massScale, acc, i, j) ==
  With(Vec3(FSub(bodies[j].position[1], bodies[i].position[1]),
            FSub(bodies[j].position[2], bodies[i].position[2]),
            FSub(bodies[j].position[3], bodies[i].position[3])), LAMBDA d :
  With(SoftenedR2(d), LAMBDA r2 :
  With(FMul(G, InvR3(r2)), LAMBDA f :
    [acc EXCEPT
       ![i] = AddScaled(@, d, FMul(FMul(f, bodies[j].mass), massScale)),
       ![j] = SubScaled(@, d, FMul(FMul(f, bodies[j].mass), massScale))])))

\* One pass of the inner statement of the pairwise loop: the pull of j on i
\* is added to acc[i], the reaction subtracted from acc[j].
PairStep(bodies, massScale, acc, i, j) ==
  With(Vec3(FSub(bodies[j].position[1], bodies[i].position[1]),
            FSub(bodies[j].position[2], bodies[i].position[2]),
            FSub(bodies[j].position[3], bodies[i].position[3])), LAMBDA d :
  With(SoftenedR2(d), LAMBDA r2 :
  With(FMul(G, InvR3(r2)), LAMBDA f :
    [acc EXCEPT
       ![i] = AddScaled(@, d, FMul(FMul(f, bodies[j].mass), massScale)),
       ![j] = SubScaled(@, d, FMul(FMul(f, bodies[i].mass), massScale))])))

\* for (j = i + 1; j < N; j++) ...
RECURSIVE PairInner(_, _, _, _, _)
PairInner(bodies, massScale, acc, i, j) ==
  IF j > Len(acc) THEN acc
  ELSE PairInner(bodies, massScale, PairStep(bodies, massScale, acc, i, j), i, j + 1)

\* for (i = 0; i < N; i++) for (j = i + 1; j < N; j++) ...
RECURSIVE PairLoop(_, _, _, _)
PairLoop(bodies, massScale, acc, i) ==
  IF i > Len(acc) THEN acc
  ELSE PairLoop(bodies, massScale, PairInner(bodies, massScale, acc, i, i + 1), i + 1)

\* The Sun-only branch for body i # s: the pull of body s alone.
SunPull(bodies, massScale, s, i) ==
  With(Vec3(FSub(bodies[s].position[1], bodies[i].position[1]),
            FSub(bodies[s].position[2], bodies[i].position[2]),
            FSub(bodies[s].position[3], bodies[i].position[3])), LAMBDA d :
  With(SoftenedR2(d), LAMBDA r2 :
    AddScaled(VZero, d,
              FMul(FMul(FMul(G, bodies[s].mass), massScale), InvR3(r2)))))

\* The Sun-only branch: every body but sunIndex is pulled by it alone.
SunOnlyAccel(bodies, massScale, sunIndex) ==
  SeqOf([i \in 1..Len(bodies) |->
           IF i = sunIndex + 1 THEN VZero
           ELSE SunPull(bodies, massScale, sunIndex + 1, i)])

\* accumulateAccelerations(bodies, massScale, centralSunOnly, sunIndex):
\* one acceleration vector <<ax[i], ay[i], az[i]>> per body.  sunIndex is
\* the program's 0-based index.
accumulateAccelerations(bodies, massScale, centralSunOnly, sunIndex) ==
  IF centralSunOnly THEN SunOnlyAccel(bodies, massScale, sunIndex)
  ELSE PairLoop(bodies, massScale, SeqOf([k \in 1..Len(bodies) |-> VZero]), 1)

\* ------------------------------------------------------------------------
\* Objects and arrays.  A Body value above is what an array holds at one
\* instant.  To follow what a handler mutates in place and what it
\* allocates, the integrators run on a heap: obj[r] is a Body object whose
\* position and velocity fields are references into vec, and a body array
\* is a sequence of references into obj.
\* ------------------------------------------------------------------------

\* The heap holding the array `bodies` and nothing else; the array is then
\* <<1, ..., N>>, body i owning the vectors 2i-1 (position) and 2i.
Load(bodies) ==
  [obj |-> SeqOf([i \in 1..Len(bodies) |->
              [bodies[i] EXCEPT !.position = 2 * i - 1, !.velocity = 2 * i]]),
   vec |-> SeqOf([r \in 1..(2 * Len(bodies)) |->
              IF r % 2 = 1 THEN bodies[(r + 1) \div 2].position
              ELSE bodies[r \div 2].velocity]),
   log |-> << >>]

LoadedArray(bodies) == SeqOf([i \in 1..Len(bodies) |-> i])

\* The Body values an array holds in heap H.
Deref(H, arr) ==
  SeqOf([i \in 1..Len(arr) |->
     [H.obj[arr[i]] EXCEPT !.position = H.vec[@], !.velocity = H.vec[@]]])

\* The vectors an array's bodies refer to.
VecRefs(H, arr) ==
  {H.obj[arr[i]].position : i \in 1..Len(arr)} \cup
  {H.obj[arr[i]].velocity : i \in 1..Len(arr)}

\* Faulty variant, b => ({ ...b }): the copy shares both vectors with b.
CloneBody_Shallow(H, r) == [H EXCEPT !.obj = Append(H.obj, H.obj[r])]

\* Faulty variant, b => ({ id, mass, position: [...], velocity: [...] }):
\* the display attributes are not carried over.
CloneBody_PhysicsOnly(H, r) ==
  [obj |-> Append(H.obj, [H.obj[r] EXCEPT !.position = Len(H.vec) + 1,
                                          !.velocity = Len(H.vec) + 2,
                                          !.name = "undefined",
                                          !.color = "undefined",
                                          !.texture = "undefined",
                                          !.radius = FZero]),
   vec |-> H.vec \o <<H.vec[H.obj[r].position], H.vec[H.obj[r].velocity]>>,
   log |-> H.log]

\* b => ({ ...b, position: [...b.position], velocity: [...b.velocity] }):
\* a new object with the fields of b and fresh copies of both vectors.
CloneBody(H, r) ==
  [obj |-> Append(H.obj, [H.obj[r] EXCEPT !.position = Len(H.vec) + 1,
                                          !.velocity = Len(H.vec) + 2]),
   vec |-> H.vec \o <<H.vec[H.obj[r].position], H.vec[H.obj[r].velocity]>>,
   log |-> H.log]

RECURSIVE CloneLoop(_, _, _)
CloneLoop(H, arr, i) ==
  IF i > Len(arr) THEN H ELSE CloneLoop(CloneBody(H, arr[i]), arr, i + 1)

\* bodies.map(b => ({...})): the heap after the copy, and the new array.
cloneBodies(H, arr) ==
  [H   |-> CloneLoop(H, arr, 1),
   arr |-> SeqOf([i \in 1..Len(arr) |-> Len(H.obj) + i])]

\* bodies[i].velocity[c] += a[i][c] * hh, for every i, in place.
RECURSIVE KickLoop(_, _, _, _, _)
KickLoop(H, arr, a, hh, i) ==
  IF i > Len(arr) THEN H
  ELSE KickLoop([H EXCEPT !.vec[H.obj[arr[i]].velocity] = AddScaled(@, a[i], hh)],
                arr, a, hh, i + 1)

\* bodies[i].position[c] += bodies[i].velocity[c] * h, in place.
RECURSIVE DriftLoop(_, _, _, _)
DriftLoop(H, arr, h, i) ==
  IF i > Len(arr) THEN H
  ELSE DriftLoop([H EXCEPT !.vec[H.obj[arr[i]].position] =
                    AddScaled(@, H.vec[H.obj[arr[i]].velocity], h)],
                 arr, h, i + 1)

\* bodies[i].velocity[c] = (bodies[i].velocity[c] + a[i][c] * hh) * velScale
RECURSIVE Kick2Loop(_, _, _, _, _, _)
Kick2Loop(H, arr, a, hh, velScale, i) ==
  IF i > Len(arr) THEN H
  ELSE Kick2Loop([H EXCEPT !.vec[H.obj[arr[i]].velocity] =
                    Scale(AddScaled(@, a[i], hh), velScale)],
                 arr, a, hh, velScale, i + 1)

\* Faulty variant: the step is taken forward whatever its sign.
StepH_Magnitude(dt, timeScale) == <<Abs(FMul(dt, timeScale)[1]), FMul(dt, timeScale)[2]>>

\* const h = dt * timeScale: the step both integrators advance by.
StepH(dt, timeScale) == FMul(dt, timeScale)

\* A call of accumulateAccelerations on the bodies of `arr` is noted in the
\* heap's log, with the positions the forces are evaluated at.
Evaluated(H, arr) ==
  [H EXCEPT !.log = Append(@, SeqOf([i \in 1..Len(arr) |->
                                       H.vec[H.obj[arr[i]].position]]))]

\* Faulty variant: the second kick uses the accelerations of the first.
stepLeapfrog_StaleForce(H, arr, dt, timeScale, massScale, velScale, centralSunOnly, sunIndex) ==
  With2(StepH(dt, timeScale),
        accumulateAccelerations(Deref(H, arr), massScale, centralSunOnly,
                                sunIndex), LAMBDA h, a0 :
    Kick2Loop(DriftLoop(KickLoop(Evaluated(H, arr), arr, a0,
                                 FMul(h, FDec(5, 1)), 1), arr, h, 1),
              arr, a0, FMul(h, FDec(5, 1)), velScale, 1))

\* stepLeapfrog(bodies, dt, timeScale, massScale, velScale, centralSunOnly,
\* sunIndex): kick, drift, kick on the vectors of `arr`, in place.
stepLeapfrog(H, arr, dt, timeScale, massScale, velScale, centralSunOnly, sunIndex) ==
  With(StepH(dt, timeScale), LAMBDA h :
  With(DriftLoop(
         KickLoop(Evaluated(H, arr), arr,
                  accumulateAccelerations(Deref(H, arr), massScale,
                                          centralSunOnly, sunIndex),
                  FMul(h, FDec(5, 1)), 1),
         arr, h, 1), LAMBDA H2 :
    Kick2Loop(Evaluated(H2, arr), arr,
              accumulateAccelerations(Deref(H2, arr), massScale, centralSunOnly,
                                      sunIndex),
              FMul(h, FDec(5, 1)), velScale, 1)))

\* for (i...) bodies[i].position = [pos[i][0], pos[i][1], pos[i][2]]: every
\* body of `arr` gets a new position vector.
RECURSIVE AssignPositions(_, _, _, _)
AssignPositions(H, arr, pos, i) ==
  IF i > Len(arr) THEN H
  ELSE AssignPositions(
         [obj |-> [H.obj EXCEPT ![arr[i]].position = Len(H.vec) + 1],
          vec |-> Append(H.vec, pos[i]),
          log |-> H.log],
         arr, pos, i + 1)

\* stepRK4's computeAccel(pos): the heap after the assignment, and the
\* accelerations at pos.
computeAccel(H, arr, pos, massScale, centralSunOnly, sunIndex) ==
  With(AssignPositions(H, arr, pos, 1), LAMBDA H1 :
    [H |-> Evaluated(H1, arr),
     a |-> accumulateAccelerations(Deref(H1, arr), massScale, centralSunOnly,
                                   sunIndex)])

\* xi[c] + s * d[i][c] for every i, c
StagePlus(x, s, d) ==
  SeqOf([i \in 1..Len(x) |->
     Vec3(FAdd(x[i][1], FMul(s, d[i][1])), FAdd(x[i][2], FMul(s, d[i][2])),
          FAdd(x[i][3], FMul(s, d[i][3])))])

\* k1[c] + 2 * k2[c] + 2 * k3[c] + k4[c]
Weighted(k1, k2, k3, k4, c) ==
  FAdd(FAdd(FAdd(k1[c], FMul(FInt(2), k2[c])), FMul(FInt(2), k3[c])), k4[c])

\* x[c] + (h / 6) * (k1[c] + 2 * k2[c] + 2 * k3[c] + k4[c])
Combine(x, h6, k1, k2, k3, k4) ==
  Vec3(FAdd(x[1], FMul(h6, Weighted(k1, k2, k3, k4, 1))),
       FAdd(x[2], FMul(h6, Weighted(k1, k2, k3, k4, 2))),
       FAdd(x[3], FMul(h6, Weighted(k1, k2, k3, k4, 3))))

\* The closing loop of stepRK4: every body gets a new position and a new
\* velocity vector, the velocity multiplied by velScale.
RECURSIVE RK4Assign(_, _, _, _, _, _)
RK4Assign(H, arr, newPos, newVel, velScale, i) ==
  IF i > Len(arr) THEN H
  ELSE RK4Assign(
         [obj |-> [H.obj EXCEPT ![arr[i]].position = Len(H.vec) + 1,
                                ![arr[i]].velocity = Len(H.vec) + 2],
          vec |-> H.vec \o <<newPos[i], Scale(newVel[i], velScale)>>,
          log |-> H.log],
         arr, newPos, newVel, velScale, i + 1)

\* stepRK4(bodies, dt, timeScale, massScale, velScale, centralSunOnly,
\* sunIndex)
stepRK4(H, arr, dt, timeScale, massScale, velScale, centralSunOnly, sunIndex) ==
  With3(StepH(dt, timeScale),
        SeqOf([i \in 1..Len(arr) |-> H.vec[H.obj[arr[i]].position]]),
        SeqOf([i \in 1..Len(arr) |-> H.vec[H.obj[arr[i]].velocity]]),
        LAMBDA h, x, v :
  With(computeAccel(H, arr, x, massScale, centralSunOnly, sunIndex), LAMBDA c1 :
  With2(StagePlus(v, FMul(FDec(5, 1), h), c1.a),
        computeAccel(c1.H, arr, StagePlus(x, FMul(FDec(5, 1), h), v), massScale,
                     centralSunOnly, sunIndex), LAMBDA v2, c2 :
  With2(StagePlus(v, FMul(FDec(5, 1), h), c2.a),
        computeAccel(c2.H, arr, StagePlus(x, FMul(FDec(5, 1), h), v2), massScale,
                     centralSunOnly, sunIndex), LAMBDA v3, c3 :
  With2(StagePlus(v, h, c3.a),
        computeAccel(c3.H, arr, StagePlus(x, h, v3), massScale, centralSunOnly,
                     sunIndex), LAMBDA v4, c4 :
    RK4Assign(c4.H, arr,
              SeqOf([i \in 1..Len(arr) |->
                       Combine(x[i], FDiv(h, FInt(6)), v[i], v2[i], v3[i], v4[i])]),
              SeqOf([i \in 1..Len(arr) |->
                       Combine(v[i], FDiv(h, FInt(6)), c1.a[i], c2.a[i], c3.a[i],
                               c4.a[i])]),
              velScale, 1))))))

\* ------------------------------------------------------------------------
\* The zustand store (state/sim, components/Controls)
\* ------------------------------------------------------------------------

\* Trail lengths are modelled in units of TrailScale samples: the store's
\* default of 1200 samples is a buffer of 1200 \div TrailScale slots.
TrailScale == 1000
Scaled(n) == n \div TrailScale

Max(a, b) == IF a >= b THEN a ELSE b

\* Functions with a changing domain stand for Map and Record<string, _>.
EmptyMap == [k \in {} |-> 0]
MapSet(m, k, v) == MapOf([x \in (DOMAIN m) \cup {k} |-> IF x = k THEN v ELSE m[x]])
MapDelete(m, k) == MapOf([x \in (DOMAIN m) \ {k} |-> m[x]])

\* trailLen of state/sim, restricted to the bodies the model instantiates.
TrailLenDefaults ==
  [sun |-> Scaled(1200), mercury |-> Scaled(1200), venus |-> Scaled(1500),
   earth |-> Scaled(2000), mars |-> Scaled(2000), jupiter |-> Scaled(1500),
   saturn |-> Scaled(1200), uranus |-> Scaled(1000), neptune |-> Scaled(1000)]

\* DEFAULT_TRAIL_LEN of components/Controls (the payload variant).
DEFAULT_TRAIL_LEN ==
  [sun |-> Scaled(1200), mercury |-> Scaled(1200), venus |-> Scaled(1500),
   earth |-> Scaled(2000), mars |-> Scaled(2000), jupiter |-> Scaled(3000),
   saturn |-> Scaled(3000), uranus |-> Scaled(3000), neptune |-> Scaled(3000),
   payload |-> Scaled(2500)]

\* The initial store of state/sim.  The payload fields do not exist there;
\* they are carried with the values no handler of that variant reads.
SimStore ==
  [running |-> TRUE, dt |-> FDec(25, 2), timeScale |-> FInt(1),
   integrator |-> "leapfrog", trails |-> TRUE, massScale |-> FInt(1),
   velScale |-> FInt(1), resetSignal |-> 0, trailLen |-> TrailLenDefaults,
   payloadEnabled |-> FALSE, dvMps |-> FZero, thrustPulse |-> 0,
   payloadReset |-> 0, brachistochrone |-> FALSE, thrustAccel |-> FDec(2, 5)]

\* The initial store of components/Controls (the payload variant).
PayloadStore ==
  [running |-> TRUE, dt |-> FDec(25, 2), timeScale |-> FInt(20),
   integrator |-> "leapfrog", trails |-> TRUE, massScale |-> FInt(1),
   velScale |-> FInt(1), resetSignal |-> 0, trailLen |-> DEFAULT_TRAIL_LEN,
   payloadEnabled |-> TRUE, dvMps |-> FInt(250), thrustPulse |-> 0,
   payloadReset |-> 0, brachistochrone |-> FALSE, thrustAccel |-> FDec(2, 5)]

\* setTrailLen(id, n): { ...s.trailLen, [id]: Math.max(0, Math.floor(n)) }
setTrailLen(trailLen, id, n) == MapSet(trailLen, id, Max(0, FFloor(n)))

\* ------------------------------------------------------------------------
\* components/OrbitCanvas: trails
\* ------------------------------------------------------------------------

\* Math.max(0, Math.floor(trailLen[b.id] ?? 2000)).  The store keeps whole
\* numbers, so the floor is the identity here.
Desired(trailLen, id) ==
  IF id \in DOMAIN trailLen THEN Max(0, trailLen[id]) ELSE Max(0, Scaled(2000))

\* new Float32Array(n): n zeros
NewFloat32Array(n) == SeqOf([k \in 1..n |-> FZero])

\* initTrail(arr, pos): every slot of arr is set to pos (rounded to
\* float32 by the store).
initTrail(arr, pos) ==
  SeqOf([k \in 1..Len(arr) |-> ToFloat32(pos[((k - 1) % 3) + 1])])

\* The buffer a handler allocates for `desired` samples of a body at pos:
\* prefilled by initTrail in OrbitCanvas.tsx, left zeroed in the payload
\* variant of the component.
AllocTrail(prefill, desired, pos) ==
  IF prefill THEN initTrail(NewFloat32Array(desired * 3), pos)
  ELSE NewFloat32Array(desired * 3)

\* arr[idx * 3 + c] = pos[c], c = 0, 1, 2.  A store outside a typed array
\* is ignored.
WriteSample(arr, idx, pos) ==
  SeqOf([k \in 1..Len(arr) |->
           IF k > idx * 3 /\ k <= idx * 3 + 3 THEN ToFloat32(pos[k - idx * 3])
           ELSE arr[k]])

\* Faulty variant: a buffer that exists is kept, whatever its capacity.
ReallocOne_KeepExisting(prefill, b, trailLen, M) ==
  IF b.id \in DOMAIN M.T \/ Desired(trailLen, b.id) = 0 THEN M
  ELSE [T |-> MapSet(M.T, b.id,
                     AllocTrail(prefill, Desired(trailLen, b.id), b.position)),
        I |-> MapSet(M.I, b.id, 0)]

\* Faulty variant: a length of 0 leaves the buffer and the cursor in place.
ReallocOne_NoDelete(prefill, b, trailLen, M) ==
  IF Desired(trailLen, b.id) = 0 THEN M
  ELSE IF b.id \in DOMAIN M.T /\ Len(M.T[b.id]) \div 3 = Desired(trailLen, b.id)
  THEN M
  ELSE [T |-> MapSet(M.T, b.id,
                     AllocTrail(prefill, Desired(trailLen, b.id), b.position)),
        I |-> MapSet(M.I, b.id, 0)]

\* The body of the reallocation effect's loop for one body b.
ReallocOne(prefill, b, trailLen, M) ==
  LET desired == Desired(trailLen, b.id)
      have    == IF b.id \in DOMAIN M.T THEN Len(M.T[b.id]) \div 3 ELSE 0
  IN  IF have = desired THEN M
      ELSE IF desired = 0
      THEN [T |-> MapDelete(M.T, b.id), I |-> MapDelete(M.I, b.id)]
      ELSE [T |-> MapSet(M.T, b.id, AllocTrail(prefill, desired, b.position)),
            I |-> MapSet(M.I, b.id, 0)]

RECURSIVE ReallocLoop(_, _, _, _, _)
ReallocLoop(prefill, bodies, trailLen, M, i) ==
  IF i > Len(bodies) THEN M
  ELSE ReallocLoop(prefill, bodies, trailLen,
                   ReallocOne(prefill, bodies[i], trailLen, M), i + 1)

\* The effect on [trailLen, bodies, trails]: M = [T |-> trailsRef.current,
\* I |-> trailIdxRef.current].
ReallocEffect(prefill, trails, bodies, trailLen, M) ==
  IF ~trails THEN M ELSE ReallocLoop(prefill, bodies, trailLen, M, 1)

\* Faulty variant: the cursor advances without wrapping around.
TrailWriteOne_NoWrap(prefill, b, trailLen, M) ==
  LET desired == Desired(trailLen, b.id)
      arr0    == IF b.id \in DOMAIN M.T THEN M.T[b.id] ELSE << >>
      idx0    == IF b.id \in DOMAIN M.I THEN M.I[b.id] ELSE 0
      realloc == b.id \notin DOMAIN M.T \/ Len(arr0) # desired * 3
      arr     == IF realloc THEN AllocTrail(prefill, desired, b.position) ELSE arr0
      idx     == IF realloc THEN 0 ELSE idx0
  IN  IF desired = 0 THEN M
      ELSE [T |-> MapSet(M.T, b.id, WriteSample(arr, idx, b.position)),
            I |-> MapSet(M.I, b.id, idx + 1)]

\* The body of the frame's trail loop for one body b of `next`.
TrailWriteOne(prefill, b, trailLen, M) ==
  LET desired == Desired(trailLen, b.id)
      arr0    == IF b.id \in DOMAIN M.T THEN M.T[b.id] ELSE << >>
      idx0    == IF b.id \in DOMAIN M.I THEN M.I[b.id] ELSE 0
      realloc == b.id \notin DOMAIN M.T \/ Len(arr0) # desired * 3
      arr     == IF realloc THEN AllocTrail(prefill, desired, b.position) ELSE arr0
      idx     == IF realloc THEN 0 ELSE idx0
  IN  IF desired = 0 THEN M
      ELSE [T |-> MapSet(M.T, b.id, WriteSample(arr, idx, b.position)),
            I |-> MapSet(M.I, b.id, IF desired > 0 THEN (idx + 1) % desired ELSE 0)]

RECURSIVE TrailWriteLoop(_, _, _, _, _)
TrailWriteLoop(prefill, next, trailLen, M, i) ==
  IF i > Len(next) THEN M
  ELSE TrailWriteLoop(prefill, next, trailLen,
                      TrailWriteOne(prefill, next[i], trailLen, M), i + 1)

\* if (trails) for (const b of next) ...
TrailWrites(prefill, trails, next, trailLen, M) ==
  IF ~trails THEN M ELSE TrailWriteLoop(prefill, next, trailLen, M, 1)

\* Faulty variant: the buffer is read from slot 0, not from the cursor.
Ordered_Unrotated(arr, idx) == arr

\* ordered.set(arr.slice(idx * 3)); ordered.set(arr.slice(0, idx * 3),
\* arr.length - idx * 3): the buffer rotated so that the slot at the cursor
\* comes first.
Ordered(arr, idx) ==
  SubSeq(arr, idx * 3 + 1, Len(arr)) \o SubSeq(arr, 1, idx * 3)

\* pts: the consecutive triples of a flat array.
Points(flat) ==
  [k \in 1..(Len(flat) \div 3) |->
     Vec3(flat[3 * k - 2], flat[3 * k - 1], flat[3 * k])]

Linearize(arr, idx) == Points(Ordered(arr, idx))

\* The useMemo of the trail lines: per body, in array order, the points of
\* its <Line>, or nothing drawn.
NoLine(id) == [key |-> id, drawn |-> FALSE, points |-> << >>]
TrailLines(bodies, trails, trailLen, M) ==
  [i \in 1..Len(bodies) |->
     LET id == bodies[i].id
     IN  IF ~trails \/ id \notin DOMAIN M.T THEN NoLine(id)
         ELSE IF Desired(trailLen, id) = 0 THEN NoLine(id)
         ELSE [key |-> id, drawn |-> TRUE,
               points |-> Linearize(M.T[id],
                                    IF id \in DOMAIN M.I THEN M.I[id] ELSE 0)]]

\* ------------------------------------------------------------------------
\* components/OrbitCanvas: bodies
\* ------------------------------------------------------------------------

\* makeCircularBodies(); seedCircularVelocities(_, "sun", false);
\* zeroSystemMomentum(_): the initial state and what a reset installs.
FreshBodies ==
  zeroSystemMomentum(seedCircularVelocities(makeCircularBodies, "sun", FALSE))

\* Faulty variant: the frame callback does not test `running`.
FrameGate_Always(running) == TRUE

\* if (!running) return;
FrameGate(running) == running

\* One call of an integrator on a copy of the array `old`, on the heap that
\* holds `old`: copy, then step the copy.  Yields the new array's values,
\* the values the old array holds afterwards, whether the two arrays share
\* a vector, and the steps the call advanced by (one, of size h).
Integrate(old, integrator, dt, timeScale, massScale, velScale, centralSunOnly, sunIndex) ==
  With(cloneBodies(Load(old), LoadedArray(old)), LAMBDA c :
  With(IF integrator = "rk4"
       THEN stepRK4(c.H, c.arr, dt, timeScale, massScale, velScale,
                    centralSunOnly, sunIndex)
       ELSE stepLeapfrog(c.H, c.arr, dt, timeScale, massScale, velScale,
                         centralSunOnly, sunIndex), LAMBDA H :
    [next    |-> Deref(H, c.arr),
     old     |-> Deref(H, LoadedArray(old)),
     aliased |-> VecRefs(H, c.arr) \cap VecRefs(H, LoadedArray(old)) # {},
     dt      |-> dt,
     timeScale |-> timeScale,
     steps   |-> <<StepH(dt, timeScale)>>,
     forces  |-> H.log]))

\* The earlier integrators of lib/physics, as functions of the array's
\* values: the per-body sum (accelFor) and the pairwise loop.

\* Faulty variant: the pull is scaled by the pulled body's own mass.
PullOf_OwnMass(bi, bj, massScale) ==
  With(Vec3(FSub(bj.position[1], bi.position[1]),
            FSub(bj.position[2], bi.position[2]),
            FSub(bj.position[3], bi.position[3])), LAMBDA d :
    Scale(d, FMul(FMul(FMul(G, bi.mass), massScale), InvR3(SoftenedR2(d)))))

\* accelFor's loop body: [dx * s, dy * s, dz * s] with
\* s = G * bj.mass * massScale * invR3
PullOf(bi, bj, massScale) ==
  With(Vec3(FSub(bj.position[1], bi.position[1]),
            FSub(bj.position[2], bi.position[2]),
            FSub(bj.position[3], bi.position[3])), LAMBDA d :
    Scale(d, FMul(FMul(FMul(G, bj.mass), massScale), InvR3(SoftenedR2(d)))))

\* for (j = 0; j < bodies.length; j++) { if (i === j) continue; a += ... }
RECURSIVE AccelForLoop(_, _, _, _, _)
AccelForLoop(bodies, i, massScale, a, j) ==
  IF j > Len(bodies) THEN a
  ELSE AccelForLoop(bodies, i, massScale,
                    IF j = i THEN a
                    ELSE AddScaled(a, PullOf(bodies[i], bodies[j], massScale), FInt(1)),
                    j + 1)

\* accelFor(bodies, i, massScale)
accelFor(bodies, i, massScale) == AccelForLoop(bodies, i, massScale, VZero, 1)

\* Array.from({ length: N }, (_, i) => accelFor(bodies, i, massScale))
PerBodyAccel(bodies, massScale) ==
  SeqOf([i \in 1..Len(bodies) |-> accelFor(bodies, i, massScale)])

\* v = (v + a * h) * velScale for every body, then x += v * h.
EulerUpdate(bodies, a, h, velScale) ==
  SeqOf([i \in 1..Len(bodies) |->
     With(Scale(AddScaled(bodies[i].velocity, a[i], h), velScale), LAMBDA v :
       [bodies[i] EXCEPT !.velocity = v,
                         !.position = AddScaled(@, v, h)])])

\* stepSymplecticEuler with accelFor (the per-body sum).
stepSymplecticEulerPerBody(bodies, dt, timeScale, massScale, velScale) ==
  EulerUpdate(bodies, PerBodyAccel(bodies, massScale), StepH(dt, timeScale),
              velScale)

\* stepSymplecticEuler with the pairwise loop.
stepSymplecticEuler(bodies, dt, timeScale, massScale, velScale) ==
  EulerUpdate(bodies, accumulateAccelerations(bodies, massScale, FALSE, 0),
              StepH(dt, timeScale), velScale)

\* The array with the positions pos: bodies[i].position = [...x[i]]
Placed(bodies, pos) ==
  SeqOf([i \in 1..Len(bodies) |-> [bodies[i] EXCEPT !.position = pos[i]]])

\* stepRK4 with accelFor (the per-body sum): k1..k4 on (x, v), then the
\* weighted sum and the velocity scaling.
stepRK4PerBody(bodies, dt, timeScale, massScale, velScale) ==
  With3(StepH(dt, timeScale),
        SeqOf([i \in 1..Len(bodies) |-> bodies[i].position]),
        SeqOf([i \in 1..Len(bodies) |-> bodies[i].velocity]),
        LAMBDA h, x0, v0 :
  With(PerBodyAccel(Placed(bodies, x0), massScale), LAMBDA k1v :
  With2(StagePlus(v0, FDiv(h, FInt(2)), k1v),
        PerBodyAccel(Placed(bodies, StagePlus(x0, FDiv(h, FInt(2)), v0)),
                     massScale), LAMBDA k2x, k2v :
  With2(StagePlus(v0, FDiv(h, FInt(2)), k2v),
        PerBodyAccel(Placed(bodies, StagePlus(x0, FDiv(h, FInt(2)), k2x)),
                     massScale), LAMBDA k3x, k3v :
  With2(StagePlus(v0, h, k3v),
        PerBodyAccel(Placed(bodies, StagePlus(x0, h, k3x)), massScale),
        LAMBDA k4x, k4v :
    SeqOf([i \in 1..Len(bodies) |->
       [bodies[i] EXCEPT
          !.position = Combine(x0[i], FDiv(h, FInt(6)), v0[i], k2x[i], k3x[i],
                               k4x[i]),
          !.velocity = Scale(Combine(v0[i], FDiv(h, FInt(6)), k1v[i], k2v[i],
                                     k3v[i], k4v[i]), velScale)]]))))))

\* stepRK4 with the pairwise loop.
stepRK4Pairwise(bodies, dt, timeScale, massScale, velScale) ==
  Integrate(bodies, "rk4", dt, timeScale, massScale, velScale, FALSE, 0).next

\* Faulty variant: dt is handed to the integrator as the store holds it.
SafeDt_Unclamped(dt) == dt

\* const safeDt = Math.min(dt, 0.25)
SafeDt(dt) == FMin(dt, FDec(25, 2))

\* const safeScale = Math.min(timeScale, 100)
SafeScale(timeScale) == FMin(timeScale, FInt(100))

\* The integration of one frame, of the array `old` the callback closed
\* over with the settings s it closed over.
FrameAdvance(old, s) ==
  Integrate(old, s.integrator, SafeDt(s.dt), SafeScale(s.timeScale),
            s.massScale, s.velScale, FALSE, 0)

\* 86400 s per day over 1.495978707e11 m per AU
M_PER_S_TO_AU_PER_DAY == FDiv(FInt(86400), Norm(1495978707, 2))

\* The updater of the spawn effect: prev => { next = copy; ensurePayloadGEO(next) }
SpawnUpdate(prev) == ensurePayloadGEO(prev)

\* The updater of the burn effect: the payload's velocity grows by dv along
\* its direction; with no payload, one is spawned instead.
BurnUpdate(prev, dvMps) ==
  LET i == FindIndex(prev, "payload")
  IN  IF i >= 1
      THEN LET dv   == FMul(dvMps, M_PER_S_TO_AU_PER_DAY)
               v    == prev[i].velocity
               hyp  == Hypot(v[1], v[2], v[3])
               vmag == IF FIsZero(hyp) THEN FInt(1) ELSE hyp
               u    == Vec3(FDiv(v[1], vmag), FDiv(v[2], vmag), FDiv(v[3], vmag))
           IN  [prev EXCEPT ![i].velocity =
                  Vec3(FAdd(v[1], FMul(u[1], dv)), FAdd(v[2], FMul(u[2], dv)),
                       FAdd(v[3], FMul(u[3], dv)))]
      ELSE ensurePayloadGEO(prev)

\* ------------------------------------------------------------------------
\* The Scene component as a state machine
\*
\* A store update and a setBodies call schedule a re-render; React commits
\* it later, and the renderer's frame loop may invoke the frame callback of
\* the last committed render before that.  Render is one render and its
\* commit: the closure, the memoised lines and the frame callback are
\* replaced, and the useEffect effects whose dependencies changed are marked.
\* A store update schedules a synchronous render, every setBodies (of the
\* frame callback and of the effects) one of default priority.  React
\* renders the synchronous one first; it leaves the setBodies updates queued,
\* so it renders the `bodies` of the previous render, and the render of
\* default priority follows.  The marked effects are passive: the commit of
\* a synchronous render runs them at once; after any other commit, the mount
\* included, they run later, as Effects, and the frame callback may be
\* invoked before them.  React runs the effects that are due before it
\* renders again.  Frame is one invocation of the useFrame callback.
\* ------------------------------------------------------------------------

MaxFrames == 2
MaxOps == 2

VARIABLES
  sim,          \* the zustand store
  bodies,       \* the latest value of the React state `bodies`
  view,         \* what the last render closed over: [sim, bodies]
  pending,      \* [render, bodies, trailLen, sync, effects]: a re-render is
                \* scheduled; `bodies` / `trailLen` got a new identity since the
                \* last render; a store update is among its causes; the effects
                \* of the last commit that have not run yet
  trailsRef,    \* trailsRef.current: id -> flat Float32Array
  trailIdxRef,  \* trailIdxRef.current: id -> cursor
  lines,        \* the memoised trail lines of the last render
  calls,        \* history: frame callbacks invoked
  ops,          \* history: store operations performed
  hist,         \* history: per executed frame, [input, latest, next, old, aliased]
  written,      \* history: id -> the frames whose sample the body's buffer received
  occupied,     \* history: id -> positions the body had in any `bodies` array
  epoch,        \* history: [resets, bodies, view] reset generations
  slotEpoch     \* history: id -> per slot, the generation of its sample

vars == <<sim, bodies, view, pending, trailsRef, trailIdxRef, lines, calls,
          ops, hist, written, occupied, epoch, slotEpoch>>

EmptyM == [T |-> EmptyMap, I |-> EmptyMap]
Refs == [T |-> trailsRef, I |-> trailIdxRef]

Ids(arr) == {arr[i].id : i \in 1..Len(arr)}
PositionOf(arr, id) == arr[FindIndex(arr, id)].position

\* A buffer of M1 that was already there, with the same capacity, in M0.
Kept(M0, M1, id) ==
  id \in DOMAIN M0.T /\ id \in DOMAIN M1.T /\ Len(M0.T[id]) = Len(M1.T[id])

\* A frame writes a sample of body id of `next`.
Sampled(next, trails, trailLen, id) ==
  trails /\ id \in Ids(next) /\ Desired(trailLen, id) > 0

WrittenAfterAlloc(M0, M1, w) ==
  [id \in DOMAIN M1.T |->
     IF Kept(M0, M1, id) /\ id \in DOMAIN w THEN w[id] ELSE << >>]

WrittenAfterFrame(M0, M1, w, n, next, trails, trailLen) ==
  [id \in DOMAIN M1.T |->
     IF Sampled(next, trails, trailLen, id)
     THEN Append(WrittenAfterAlloc(M0, M1, w)[id], n)
     ELSE WrittenAfterAlloc(M0, M1, w)[id]]

EpochsAfterAlloc(M0, M1, se, e) ==
  [id \in DOMAIN M1.T |->
     IF Kept(M0, M1, id) /\ id \in DOMAIN se THEN se[id]
     ELSE [k \in 1..(Len(M1.T[id]) \div 3) |-> e]]

EpochsAfterFrame(M0, M1, se, e, next, trails, trailLen) ==
  [id \in DOMAIN M1.T |->
     IF Sampled(next, trails, trailLen, id) /\ Kept(M0, M1, id)
        /\ id \in DOMAIN M0.I /\ M0.I[id] < Len(M1.T[id]) \div 3
     THEN [EpochsAfterAlloc(M0, M1, se, e)[id] EXCEPT ![M0.I[id] + 1] = e]
     ELSE EpochsAfterAlloc(M0, M1, se, e)[id]]

Occupy(occ, arr) ==
  [id \in (DOMAIN occ) \cup Ids(arr) |->
     (IF id \in DOMAIN occ THEN occ[id] ELSE {})
       \cup (IF id \in Ids(arr) THEN {PositionOf(arr, id)} ELSE {})]

\* const extra: ExtraAccel = undefined;
Undefined == "undefined"

\* What one executed frame did: the array it stepped, the latest `bodies`
\* state at that time, the result r of FrameAdvance, and the `extra` the
\* frame had for the integrator.
FrameRecord(input, latest, integrator, r) ==
  [input |-> input, latest |-> latest, integrator |-> integrator,
   next |-> r.next, old |-> r.old, aliased |-> r.aliased,
   dt |-> r.dt, timeScale |-> r.timeScale, steps |-> r.steps,
   extra |-> Undefined]

\* Nothing scheduled.
Idle == [render |-> FALSE, bodies |-> FALSE, trailLen |-> FALSE,
         sync |-> FALSE, effects |-> {}]

\* The effects a render marks: those with a dependency that differs from the
\* previous render's.  old and new are the closures of the previous and of
\* this render, fresh the identity flags of `bodies` and `trailLen`.
Marked(old, new, fresh) ==
  {e \in {"reset", "spawn", "burn", "realloc"} :
     \/ e = "reset" /\ new.sim.resetSignal # old.sim.resetSignal
     \/ e = "spawn" /\ \/ new.sim.payloadEnabled # old.sim.payloadEnabled
                       \/ new.sim.payloadReset # old.sim.payloadReset
     \/ e = "burn" /\ new.sim.thrustPulse # old.sim.thrustPulse
     \/ e = "realloc" /\ \/ fresh.trailLen
                         \/ fresh.bodies
                         \/ new.sim.trails # old.sim.trails}

\* The marked effects run, in the order the component declares them, with
\* the closure `new` of their render; b is the latest `bodies` state when
\* they run and M the two ref maps.
RunEffects(prefill, marked, new, b, M) ==
  LET resetFired == "reset" \in marked
      b1 == IF resetFired THEN FreshBodies ELSE b
      M1 == IF resetFired THEN EmptyM ELSE M
      spawnFired == "spawn" \in marked /\ new.sim.payloadEnabled
      b2 == IF spawnFired THEN SpawnUpdate(b1) ELSE b1
      burnFired == "burn" \in marked /\ new.sim.payloadEnabled
      b3 == IF burnFired THEN BurnUpdate(b2, new.sim.dvMps) ELSE b2
      M2 == IF "realloc" \in marked
            THEN ReallocEffect(prefill, new.sim.trails, new.bodies,
                               new.sim.trailLen, M1)
            ELSE M1
  IN  [bodies |-> b3, M1 |-> M1, M |-> M2, reset |-> resetFired,
       set |-> resetFired \/ spawnFired \/ burnFired]

\* What the effects change: the `bodies` state, the ref maps and what is
\* scheduled, with the history of the buffers.
Now ==
  [bodies |-> bodies, M |-> Refs, pending |-> pending, written |-> written,
   slotEpoch |-> slotEpoch, occupied |-> occupied, epoch |-> epoch]

\* The state s after effects with the outcome c have run in the closure v.
Flushed(c, v, s) ==
  LET ve == IF c.reset /\ v.bodies = FreshBodies THEN s.epoch.resets + 1
                                                ELSE s.epoch.view
  IN  [bodies |-> c.bodies,
       M |-> c.M,
       pending |-> [s.pending EXCEPT !.render = @ \/ c.set,
                                     !.bodies = @ \/ c.set,
                                     !.effects = {}],
       written |-> WrittenAfterAlloc(c.M1, c.M, s.written),
       slotEpoch |-> EpochsAfterAlloc(c.M1, c.M, s.slotEpoch, ve),
       occupied |-> Occupy(s.occupied, c.bodies),
       epoch |-> [resets |-> IF c.reset THEN s.epoch.resets + 1
                                        ELSE s.epoch.resets,
                  bodies |-> IF c.reset THEN s.epoch.resets + 1
                                        ELSE s.epoch.bodies,
                  view |-> ve]]

\* The effects that are due in s run, with the closure v of the render that
\* marked them; every setBodies of an effect schedules a render of default
\* priority.
Flush(prefill, v, s) ==
  IF s.pending.effects = {} THEN s
  ELSE Flushed(RunEffects(prefill, s.pending.effects, v, s.bodies, s.M), v, s)

\* The state after the mount's render has committed: the closure holds the
\* useState initial array, the maps are empty, and every effect of the
\* component is due.
Mounted(store, effects) ==
  LET v == [sim |-> store, bodies |-> FreshBodies]
  IN  /\ sim = store
      /\ view = v
      /\ bodies = FreshBodies
      /\ pending = [Idle EXCEPT !.effects = effects]
      /\ trailsRef = EmptyMap
      /\ trailIdxRef = EmptyMap
      /\ lines = TrailLines(v.bodies, store.trails, store.trailLen, EmptyM)
      /\ calls = 0
      /\ ops = 0
      /\ hist = << >>
      /\ written = EmptyMap
      /\ occupied = Occupy(EmptyMap, FreshBodies)
      /\ epoch = [resets |-> 0, bodies |-> 0, view |-> 0]
      /\ slotEpoch = EmptyMap

Init == Mounted(SimStore, {"reset", "realloc"})
InitPayload == Mounted(PayloadStore, {"reset", "spawn", "burn", "realloc"})

\* React runs the effects that are still due, re-renders the component and
\* commits.  A synchronous render (a store update scheduled it) renders the
\* `bodies` of the previous render and runs its effects with the commit;
\* a render of default priority renders the latest `bodies` and leaves its
\* effects due.
RenderOf(prefill) ==
  /\ pending.render
  /\ \E s0 \in {Flush(prefill, view, Now)} :
     \E sync \in {s0.pending.sync} :
     \E new \in {[sim |-> sim, bodies |-> IF sync THEN view.bodies ELSE s0.bodies]} :
     \E fresh \in {[bodies |-> ~sync /\ s0.pending.bodies,
                     trailLen |-> s0.pending.trailLen]} :
     \E marked \in {Marked(view, new, fresh)} :
     \E s1 \in {IF sync
                 THEN Flush(prefill, new,
                            [s0 EXCEPT !.pending =
                               [Idle EXCEPT !.render = s0.pending.bodies,
                                            !.bodies = s0.pending.bodies,
                                            !.effects = marked]])
                 ELSE [s0 EXCEPT !.pending = [Idle EXCEPT !.effects = marked],
                                 !.epoch.view = s0.epoch.bodies]} :
       /\ view' = new
       /\ lines' = IF \/ fresh.bodies
                      \/ fresh.trailLen
                      \/ sim.trails # view.sim.trails
                      \/ sim.resetSignal # view.sim.resetSignal
                      \/ sim.payloadReset # view.sim.payloadReset
                      \/ sim.thrustPulse # view.sim.thrustPulse
                   THEN TrailLines(new.bodies, sim.trails, sim.trailLen, s0.M)
                   ELSE lines
       /\ bodies' = s1.bodies
       /\ trailsRef' = s1.M.T
       /\ trailIdxRef' = s1.M.I
       /\ pending' = s1.pending
       /\ written' = s1.written
       /\ slotEpoch' = s1.slotEpoch
       /\ occupied' = s1.occupied
       /\ epoch' = s1.epoch
  /\ UNCHANGED <<sim, calls, ops, hist>>

\* The effects that are due run in a task of their own, with the closure of
\* the render that marked them, on the `bodies` state and the ref maps as
\* they are by then.
EffectsOf(prefill) ==
  /\ pending.effects # {}
  /\ \E s \in {Flush(prefill, view, Now)} :
       /\ bodies' = s.bodies
       /\ trailsRef' = s.M.T
       /\ trailIdxRef' = s.M.I
       /\ pending' = s.pending
       /\ written' = s.written
       /\ slotEpoch' = s.slotEpoch
       /\ occupied' = s.occupied
       /\ epoch' = s.epoch
  /\ UNCHANGED <<sim, view, lines, calls, ops, hist>>

\* The useFrame callback of the last render runs once.
FrameOf(prefill, limit) ==
  /\ calls < limit
  /\ calls' = calls + 1
  /\ IF ~FrameGate(view.sim.running)
     THEN UNCHANGED <<sim, bodies, view, pending, trailsRef, trailIdxRef, lines,
                      ops, hist, written, occupied, epoch, slotEpoch>>
     ELSE \E r \in {FrameAdvance(view.bodies, view.sim)} :
          \E M \in {TrailWrites(prefill, view.sim.trails, r.next,
                                view.sim.trailLen, Refs)} :
              /\ bodies' = r.next
              /\ view' = [view EXCEPT !.bodies = r.old]
              /\ pending' = [pending EXCEPT !.render = TRUE, !.bodies = TRUE]
              /\ trailsRef' = M.T
              /\ trailIdxRef' = M.I
              /\ hist' = Append(hist, FrameRecord(view.bodies, bodies, view.sim.integrator, r))
              /\ written' = WrittenAfterFrame(Refs, M, written, Len(hist) + 1,
                                              r.next, view.sim.trails,
                                              view.sim.trailLen)
              /\ slotEpoch' = EpochsAfterFrame(Refs, M, slotEpoch, epoch.view,
                                               r.next, view.sim.trails,
                                               view.sim.trailLen)
              /\ occupied' = Occupy(occupied, r.next)
              /\ epoch' = [epoch EXCEPT !.bodies = epoch.view]
              /\ UNCHANGED <<sim, lines, ops>>

\* A store update: zustand installs the new state and schedules a re-render.
StoreSet(newSim) ==
  /\ ops < MaxOps
  /\ ops' = ops + 1
  /\ sim' = newSim
  /\ pending' = [pending EXCEPT !.render = TRUE, !.sync = TRUE,
                                !.trailLen = @ \/ newSim.trailLen # sim.trailLen]
  /\ UNCHANGED <<bodies, view, trailsRef, trailIdxRef, lines, calls, hist,
                 written, occupied, epoch, slotEpoch>>

\* The values the sliders are moved to.
DtInputs == {FDec(5, 2), FInt(1)}
TimeScaleInputs == {FInt(25)}
DpsInputs == {365}
MassScaleInputs == {FInt(2)}
VelScaleInputs == {FDec(15, 1)}
TrailIdInputs == {"sun", "earth"}
TrailLenInputs == {FZero, FInt(1), FDec(25, 1), FInt(3)}

SetRunning == StoreSet([sim EXCEPT !.running = ~@])
SetIntegrator ==
  \E x \in {"leapfrog", "rk4"} : x # sim.integrator /\ StoreSet([sim EXCEPT !.integrator = x])
SetTrails == StoreSet([sim EXCEPT !.trails = ~@])
SetDt == \E x \in DtInputs : StoreSet([sim EXCEPT !.dt = x])
SetTimeScale == \E x \in TimeScaleInputs : StoreSet([sim EXCEPT !.timeScale = x])
\* A real-world preset: ts = Math.max(0.1, Math.min(400, dps / (60 * dt)))
PresetScale(dps, dt) ==
  FMax(FDec(1, 1), FMin(FInt(400), FDiv(FInt(dps), FMul(FInt(60), dt))))
SetPreset ==
  \E dps \in DpsInputs : StoreSet([sim EXCEPT !.timeScale = PresetScale(dps, sim.dt)])
SetMassScale == \E x \in MassScaleInputs : StoreSet([sim EXCEPT !.massScale = x])
SetVelScale == \E x \in VelScaleInputs : StoreSet([sim EXCEPT !.velScale = x])
pokeReset == StoreSet([sim EXCEPT !.resetSignal = @ + 1])
SetTrailLenOf(ids, lens) ==
  \E id \in ids, n \in lens :
    /\ ops < MaxOps
    /\ ops' = ops + 1
    /\ sim' = [sim EXCEPT !.trailLen = setTrailLen(@, id, n)]
    /\ pending' = [pending EXCEPT !.render = TRUE, !.sync = TRUE,
                                  !.trailLen = TRUE]
    /\ UNCHANGED <<bodies, view, trailsRef, trailIdxRef, lines, calls, hist,
                   written, occupied, epoch, slotEpoch>>

SetTrailLen == SetTrailLenOf(TrailIdInputs, TrailLenInputs)

Render == RenderOf(TRUE)
Effects == EffectsOf(TRUE)
Frame == FrameOf(TRUE, MaxFrames)

Next ==
  \/ Render
  \/ Effects
  \/ Frame
  \/ SetRunning
  \/ SetIntegrator
  \/ SetTrails
  \/ SetDt
  \/ SetTimeScale
  \/ SetPreset
  \/ SetMassScale
  \/ SetVelScale
  \/ pokeReset
  \/ SetTrailLen

Spec == Init /\ [][Next]_vars

\* ------------------------------------------------------------------------
\* The payload variant of the Scene (components/Controls store)
\* ------------------------------------------------------------------------

\* The controls of the payload panel; the time scale slider is moved to
\* 200, the delta-v slider to 1000 m/s and the payload's trail slider to 0
\* and to 1000 points.
fireThrust == StoreSet([sim EXCEPT !.thrustPulse = @ + 1])
resetPayload == StoreSet([sim EXCEPT !.payloadReset = @ + 1])
SetPayloadEnabled == StoreSet([sim EXCEPT !.payloadEnabled = ~@])
SetPayloadTimeScale ==
  \E x \in {FInt(200)} : StoreSet([sim EXCEPT !.timeScale = x])
SetDvMps == \E x \in {FInt(1000)} : StoreSet([sim EXCEPT !.dvMps = x])
SetPayloadTrailLen == SetTrailLenOf({"payload"}, {FZero, FInt(1)})

RenderPayload == RenderOf(FALSE)
EffectsPayload == EffectsOf(FALSE)
FramePayload == FrameOf(FALSE, MaxFrames)

NextPayload ==
  \/ RenderPayload
  \/ EffectsPayload
  \/ FramePayload
  \/ SetRunning
  \/ SetIntegrator
  \/ SetTrails
  \/ SetDt
  \/ SetPayloadTimeScale
  \/ SetMassScale
  \/ SetVelScale
  \/ SetDvMps
  \/ SetPayloadTrailLen
  \/ pokeReset
  \/ fireThrust
  \/ resetPayload
  \/ SetPayloadEnabled

SpecPayload == InitPayload /\ [][NextPayload]_vars

\* ------------------------------------------------------------------------
\* The trail ring buffer: the Scene from its mount, run for enough frames
\* to wrap every buffer, with the Sun's capacity set by its slider.
\* ------------------------------------------------------------------------

MaxK == 3
Extra == 5

\* The value the Sun's trail slider is moved to, in units of TrailScale.
ProbeLenInputs == {FInt(MaxK)}

\* The Scene as mounted, with the store as state/sim creates it.
InitTrail == Mounted(SimStore, {"reset", "realloc"})

\* setTrailLen("sun", n), once.
SetProbeTrailLen == ops = 0 /\ SetTrailLenOf({"sun"}, ProbeLenInputs)

\* The useFrame callback of the last render runs once, whole: the step on
\* the copy of the closure's array, setBodies(next), then the trail loop
\* over next.  Frames with no render between them step the same array and
\* write the same sample again.
TrailFrame == FrameOf(TRUE, MaxK + Extra)

NextTrail ==
  \/ TrailFrame
  \/ Render
  \/ Effects
  \/ SetProbeTrailLen

SpecTrail == InitTrail /\ [][NextTrail]_vars

\* ------------------------------------------------------------------------
\* The engine on its own: the exported functions of lib/physics and
\* lib/bodies applied to body arrays and settings drawn from small sets.
\* `bodies` is the array the functions are applied to, `sim` the settings
\* the integrators are called with, view.bodies the array the run started
\* from, and hist the calls made so far.
\* ------------------------------------------------------------------------

MaxSteps == 10
MaxCalls == 2

\* A body with the given physical fields.
TestBody(id, mass, position, velocity) ==
  Body(id, id, "#ffffff", mass, position, velocity, FDec(6, 3), "none")

\* One moving body: nothing accelerates it.
Lone == <<TestBody("sun", FInt(1), VZero, Vec3(FDec(1, 2), FDec(2, 2), FZero))>>

\* Two massive bodies, of mass 2 and 1, both moving.
Binary ==
  << TestBody("sun", FInt(2), VZero, Vec3(FDec(3, 2), FZero, FZero)),
     TestBody("earth", FInt(1), Vec3(FInt(1), FZero, FZero),
              Vec3(FZero, FDec(-6, 2), FDec(1, 2))) >>

\* Sun and Earth of the registry, Earth on its circular orbit.
SunEarth ==
  seedCircularVelocities(<<makeCircularBodies[1], makeCircularBodies[4]>>,
                         "sun", FALSE)

\* Sun, Earth and the zero-mass payload, last and in the middle.
PayloadLast == ensurePayloadGEO(SunEarth)
PayloadMid == <<PayloadLast[1], PayloadLast[3], PayloadLast[2]>>

\* A body straight above the Sun: its radius vector is parallel to the
\* normal of the XY plane.
Polar ==
  << makeCircularBodies[1],
     TestBody("earth", FDec(3003, 9), Vec3(FZero, FZero, FInt(1)), VZero) >>

\* Two test particles: the total mass is 0.
Massless ==
  << TestBody("payload", FZero, Vec3(FInt(1), FZero, FZero),
              Vec3(FDec(1, 2), FZero, FZero)),
     TestBody("probe", FZero, Vec3(FZero, FInt(1), FZero),
              Vec3(FZero, FDec(2, 2), FZero)) >>

\* Mercury and Venus: neither a Sun nor an Earth.
Inner == <<makeCircularBodies[2], makeCircularBodies[3]>>

\* Two massive bodies at rest at the same place, and a third one apart.
Coincident ==
  << TestBody("sun", FInt(1), VZero, VZero),
     TestBody("earth", FDec(1, 1), VZero, VZero),
     TestBody("mars", FDec(2, 1), Vec3(FZero, FZero, FInt(1)),
              Vec3(FDec(1, 2), FZero, FZero)) >>

\* The two bodies of Binary after zeroSystemMomentum.
Balanced == zeroSystemMomentum(Binary)

\* Two massive bodies 0.05 AU apart on a close orbit: one step of 0.1 day
\* changes their velocities by about a quarter of their size.
Tight ==
  << TestBody("sun", FInt(2), VZero, Vec3(FZero, FDec(-4, 2), FZero)),
     TestBody("earth", FInt(1), Vec3(FDec(5, 2), FZero, FZero),
              Vec3(FZero, FDec(9, 2), FDec(1, 2))) >>

\* The two bodies of Tight after zeroSystemMomentum.
TightBalanced == zeroSystemMomentum(Tight)

EngineArrays ==
  {Lone, Binary, SunEarth, PayloadLast, PayloadMid, Polar, Massless, Inner,
   Coincident, Balanced, Tight, TightBalanced}

EngineDt == {FDec(-1, 1), FZero, FDec(1, 1), FInt(1)}
EngineTimeScale == {FZero, FInt(1)}
EngineVelScale == {FInt(1), FDec(15, 1)}
EngineSunIds == {"sun", "nemesis"}

InitEngine ==
  \E arr \in EngineArrays, d \in EngineDt, ts \in EngineTimeScale,
     vs \in EngineVelScale, ig \in {"leapfrog", "rk4"} :
  \E s \in {[SimStore EXCEPT !.dt = d, !.timeScale = ts, !.velScale = vs,
                             !.integrator = ig]} :
    /\ sim = s
    /\ view = [sim |-> s, bodies |-> arr]
    /\ bodies = arr
    /\ pending = Idle
    /\ trailsRef = EmptyMap
    /\ trailIdxRef = EmptyMap
    /\ lines = EmptyMap
    /\ calls = 0
    /\ ops = 0
    /\ hist = << >>
    /\ written = EmptyMap
    /\ occupied = EmptyMap
    /\ epoch = [resets |-> 0, bodies |-> 0, view |-> 0]
    /\ slotEpoch = EmptyMap

\* One more call is recorded; the Scene's own state is not involved.
EngineCall(after, rec) ==
  /\ bodies' = after
  /\ hist' = Append(hist, rec)
  /\ UNCHANGED <<sim, view, pending, trailsRef, trailIdxRef, lines, written,
                 occupied, epoch, slotEpoch>>

\* The frame's advance: if (!running) return; next = copy of bodies;
\* safeDt = Math.min(dt, 0.25); safeScale = Math.min(timeScale, 100);
\* stepRK4 / stepLeapfrog(next, safeDt, safeScale, massScale, velScale,
\* false, 0), with the settings as they are.
Advance ==
  /\ FrameGate(sim.running)
  /\ ops = 0
  /\ calls < MaxSteps
  /\ calls' = calls + 1
  /\ ops' = ops
  /\ \E r \in {FrameAdvance(bodies, sim)} :
       EngineCall(r.next, [op |-> "step", input |-> bodies, next |-> r.next,
                           steps |-> r.steps, forces |-> r.forces])

\* The functions of lib/physics and lib/bodies that edit an array are
\* applied to the array the run started from, at most MaxCalls times.
EngineEdit(after, rec) ==
  /\ calls = 0
  /\ ops < MaxCalls
  /\ ops' = ops + 1
  /\ calls' = calls
  /\ EngineCall(after, rec)

ZeroMomentum ==
  EngineEdit(zeroSystemMomentum(bodies),
             [op |-> "zero", input |-> bodies, next |-> zeroSystemMomentum(bodies)])

Seed ==
  \E id \in EngineSunIds, cw \in BOOLEAN :
    EngineEdit(seedCircularVelocities(bodies, id, cw),
               [op |-> "seed", sunId |-> id, clockwise |-> cw, input |-> bodies,
                next |-> seedCircularVelocities(bodies, id, cw)])

SpawnGEO ==
  EngineEdit(ensurePayloadGEO(bodies),
             [op |-> "geo", input |-> bodies, next |-> ensurePayloadGEO(bodies)])

\* The array with every velocity negated.
Reversed(arr) ==
  [i \in 1..Len(arr) |->
     [arr[i] EXCEPT !.velocity = Vec3(FNeg(@[1]), FNeg(@[2]), FNeg(@[3]))]]

\* The step that undoes the last frame's: the integrator called on a copy
\* with the step the frame took, negated (stepLeapfrog(next, -safeDt,
\* safeScale, ...)), or called with that step on the array with negated
\* velocities, which are negated again afterwards.  It ends the run.
StepBack ==
  /\ ops = 0
  /\ calls > 0
  /\ calls < MaxSteps
  /\ calls' = calls
  /\ ops' = ops + 1
  /\ \E way \in {"negative step", "negated velocities"} :
     \E after \in {IF way = "negative step"
                   THEN Integrate(bodies, sim.integrator, FNeg(SafeDt(sim.dt)),
                                  SafeScale(sim.timeScale), sim.massScale,
                                  sim.velScale, FALSE, 0).next
                   ELSE Reversed(Integrate(Reversed(bodies), sim.integrator,
                                           SafeDt(sim.dt), SafeScale(sim.timeScale),
                                           sim.massScale, sim.velScale,
                                           FALSE, 0).next)} :
       EngineCall(after, [op |-> "back", way |-> way, input |-> bodies,
                          next |-> after, start |-> hist[Len(hist)].input])

NextEngine ==
  \/ Advance
  \/ ZeroMomentum
  \/ Seed
  \/ SpawnGEO
  \/ StepBack

SpecEngine == InitEngine /\ [][NextEngine]_vars

\* ------------------------------------------------------------------------
\* The brachistochrone controls: the panel of components/Controls with the
\* store it creates, next to the Scene of components/OrbitCanvas, which
\* subscribes to the store of state/sim.  `sim` holds both stores, the
\* panel's under `controls`.
\* ------------------------------------------------------------------------

\* The initial store of components/Controls (the brachistochrone variant).
ControlsStore ==
  [running |-> TRUE, dt |-> FDec(25, 2), timeScale |-> FInt(20),
   integrator |-> "leapfrog", trails |-> TRUE, massScale |-> FInt(1),
   velScale |-> FInt(1), brachistochrone |-> FALSE, thrustAccel |-> FDec(2, 5),
   resetSignal |-> 0]

\* The stores of the page as the two modules create them.
PageStores ==
  [f \in (DOMAIN SimStore) \cup {"controls"} |->
     IF f = "controls" THEN ControlsStore ELSE SimStore[f]]

\* The values the thrust slider is moved to (min 1e-6, max 8e-5).
ThrustAccelInputs == {FDec(1, 6), FDec(8, 5)}

\* The page as mounted: the Scene with its initial array and its effects
\* due, the panel with its store as created.
InitAutopilot == Mounted(PageStores, {"reset", "realloc"})

\* set(p) of components/Controls: zustand installs the new state and
\* re-renders the panel, the only subscriber of this store.
ControlsSet(p) ==
  /\ ops < MaxOps
  /\ ops' = ops + 1
  /\ sim' = [sim EXCEPT !.controls = p]
  /\ UNCHANGED <<bodies, view, pending, trailsRef, trailIdxRef, lines, calls,
                 hist, written, occupied, epoch, slotEpoch>>

\* onClick of Play / Pause: set({ running: !running })
SetControlsRunning == ControlsSet([sim.controls EXCEPT !.running = ~@])

\* onClick of Reset: pokeReset()
pokeControlsReset == ControlsSet([sim.controls EXCEPT !.resetSignal = @ + 1])

\* onChange of the sliders: set({ timeScale | dt | massScale | velScale:
\* Number(e.target.value) }), moved to the ends of their ranges.
SetControlsTimeScale ==
  \E x \in {FDec(1, 1), FInt(200)} : ControlsSet([sim.controls EXCEPT !.timeScale = x])
SetControlsDt ==
  \E x \in {FDec(5, 2), FInt(1)} : ControlsSet([sim.controls EXCEPT !.dt = x])
SetControlsMassScale ==
  \E x \in {FDec(1, 1), FInt(5)} : ControlsSet([sim.controls EXCEPT !.massScale = x])
SetControlsVelScale ==
  \E x \in {FDec(5, 1), FDec(15, 1)} : ControlsSet([sim.controls EXCEPT !.velScale = x])

\* onChange of the select: set({ integrator: e.target.value })
SetControlsIntegrator ==
  \E x \in {"leapfrog", "rk4"} :
    x # sim.controls.integrator /\ ControlsSet([sim.controls EXCEPT !.integrator = x])

\* onChange of the checkboxes: set({ trails | brachistochrone:
\* e.target.checked })
SetControlsTrails == ControlsSet([sim.controls EXCEPT !.trails = ~@])
SetBrachistochrone == ControlsSet([sim.controls EXCEPT !.brachistochrone = ~@])

\* onChange of the thrust slider: set({ thrustAccel: Number(e.target.value) })
SetThrustAccel ==
  \E x \in ThrustAccelInputs : ControlsSet([sim.controls EXCEPT !.thrustAccel = x])

NextAutopilot ==
  \/ Render
  \/ Effects
  \/ Frame
  \/ SetControlsRunning
  \/ pokeControlsReset
  \/ SetControlsTimeScale
  \/ SetControlsDt
  \/ SetControlsIntegrator
  \/ SetControlsTrails
  \/ SetControlsMassScale
  \/ SetControlsVelScale
  \/ SetBrachistochrone
  \/ SetThrustAccel

SpecAutopilot == InitAutopilot /\ [][NextAutopilot]_vars

\* ------------------------------------------------------------------------
\* The earlier integrators of lib/physics, both variants on one input
\* ------------------------------------------------------------------------

\* Both variants of an integrator are applied to the same array; the run
\* goes on from the pairwise result.
StepBoth(op, perBody, pairwise) ==
  /\ calls < MaxFrames
  /\ calls' = calls + 1
  /\ ops' = ops
  /\ EngineCall(pairwise, [op |-> op, input |-> bodies, perBody |-> perBody,
                           pairwise |-> pairwise])

StepEuler ==
  StepBoth("euler",
           stepSymplecticEulerPerBody(bodies, sim.dt, sim.timeScale,
                                      sim.massScale, sim.velScale),
           stepSymplecticEuler(bodies, sim.dt, sim.timeScale, sim.massScale,
                               sim.velScale))

StepRK4 ==
  StepBoth("rk4",
           stepRK4PerBody(bodies, sim.dt, sim.timeScale, sim.massScale,
                          sim.velScale),
           stepRK4Pairwise(bodies, sim.dt, sim.timeScale, sim.massScale,
                           sim.velScale))

\* lib/physics.ts' own seedCircularVelocities and cloneBodies, applied
\* once to the array the run starts from.
VariantEdit(after, rec) ==
  /\ calls = 0
  /\ ops = 0
  /\ ops' = 1
  /\ calls' = calls
  /\ EngineCall(after, rec)

SeedVariants ==
  \E id \in EngineSunIds, cw \in BOOLEAN :
  \E after \in {seedCircularVelocitiesFallback(bodies, id, cw)} :
    VariantEdit(after, [op |-> "seed", sunId |-> id, clockwise |-> cw,
                        input |-> bodies, next |-> after])

CloneVariants ==
  \E c \in {cloneBodies(Load(bodies), LoadedArray(bodies))} :
    VariantEdit(Deref(c.H, c.arr),
                [op |-> "clone", input |-> bodies, next |-> Deref(c.H, c.arr),
                 aliased |-> VecRefs(c.H, c.arr)
                               \cap VecRefs(c.H, LoadedArray(bodies)) # {}])

NextVariants ==
  \/ SeedVariants
  \/ CloneVariants
  \/ StepEuler
  \/ StepRK4

SpecVariants == InitEngine /\ [][NextVariants]_vars

\* ------------------------------------------------------------------------
\* Properties
\* ------------------------------------------------------------------------

\* The capacity, in samples, of the buffer of body id.
Capacity(id) == Len(trailsRef[id]) \div 3

\* The positions body id had in the K most recent executed frames, oldest
\* first, as a Float32Array holds them.
LastFrames(id, K) ==
  [j \in 1..K |-> ToFloat32Vec(PositionOf(hist[Len(hist) - K + j].next, id))]

\* The last render has seen the current store and the current bodies, and
\* its effects have run.
Rendered == ~pending.render /\ pending.effects = {}

\* Trails are enabled and nothing is scheduled.
Settled == sim.trails /\ Rendered

\* Two arrays with the same length, order and ids that differ at most in
\* the positions and velocities of their bodies.
SameButMotion(a, b) ==
  /\ Len(a) = Len(b)
  /\ \A i \in 1..Len(a) :
       [b[i] EXCEPT !.position = a[i].position, !.velocity = a[i].velocity] = a[i]

\* The last K samples the buffer of body id has received since it was
\* allocated, oldest first, as a Float32Array holds them.
LastWritten(id, K) ==
  [j \in 1..K |->
     ToFloat32Vec(PositionOf(hist[written[id][Len(written[id]) - K + j]].next, id))]

\* C1: once at least K samples have been written into a fresh buffer of
\* capacity K, linearizing the buffer from the cursor yields exactly K
\* entries: the last K written samples, oldest first; and these are the
\* points of the body's line once the render that follows the writes has
\* linearized it.
C1_LinearizedIsLastK ==
  /\ \A id \in DOMAIN trailsRef :
       Len(written[id]) >= Capacity(id)
         => Linearize(trailsRef[id], trailIdxRef[id]) = LastWritten(id, Capacity(id))
  /\ \A i \in 1..Len(lines) :
       (/\ Rendered
        /\ lines[i].drawn
        /\ lines[i].key \in DOMAIN trailsRef
        /\ Len(written[lines[i].key]) >= Capacity(lines[i].key))
         => lines[i].points = LastWritten(lines[i].key, Capacity(lines[i].key))

\* K + Extra samples were written into the largest buffer since the
\* re-allocation effect allocated it, the cursor has wrapped to the middle
\* of it, the samples it holds are pairwise different, and the render after
\* the last write has drawn the line.
C1_Witness ==
  \E id \in DOMAIN trailsRef :
    /\ Capacity(id) = MaxK
    /\ Len(written[id]) = MaxK + Extra
    /\ trailIdxRef[id] # 0
    /\ \A j, k \in 1..MaxK :
         j # k => Linearize(trailsRef[id], trailIdxRef[id])[j]
                    # Linearize(trailsRef[id], trailIdxRef[id])[k]
    /\ Rendered
    /\ \E i \in 1..Len(lines) : lines[i].key = id /\ lines[i].drawn

\* C2: with trails enabled, a buffer of capacity K > 0 that has received at
\* least K samples since its allocation linearizes to the body's positions
\* in the K most recent executed frames, in frame order.
C2_BufferHoldsRecentFrames ==
  (sim.trails /\ view.sim.trails) =>
    \A id \in DOMAIN trailsRef :
      (Capacity(id) > 0 /\ Len(written[id]) >= Capacity(id))
        => Linearize(trailsRef[id], trailIdxRef[id]) = LastFrames(id, Capacity(id))

\* C3, as stated: in every state, every buffer's capacity is the body's
\* configured trail length.
C3_CapacityIsConfigured ==
  \A id \in DOMAIN trailsRef : Capacity(id) = Desired(sim.trailLen, id)

\* C3, as the code has it: once the render that follows a change has
\* committed with trails enabled, every buffer's capacity is the configured
\* length, and a buffer that has received no sample since it was allocated
\* has its cursor at 0.
C3_CapacityWhenSettled ==
  Settled =>
    \A id \in DOMAIN trailsRef :
      /\ Capacity(id) = Desired(sim.trailLen, id)
      /\ written[id] = << >> => trailIdxRef[id] = 0

\* A settled state in which a body's buffer has another capacity than the
\* one it was mounted with, and has dropped its history.
C3_Witness ==
  /\ Settled
  /\ hist # << >>
  /\ \E id \in DOMAIN trailsRef :
       /\ Capacity(id) # Desired(SimStore.trailLen, id)
       /\ written[id] = << >>

\* C4: every point of every rendered trail line is a position the body
\* actually had.
C4_RenderedSlotsArePositions ==
  \A i \in 1..Len(lines) :
    lines[i].drawn =>
      \A k \in 1..Len(lines[i].points) :
        lines[i].points[k] \in {ToFloat32Vec(p) : p \in occupied[lines[i].key]}

\* C5, as stated: in every state, a body whose configured length is 0 has
\* neither a buffer nor a cursor.
C5_NoBufferAtZero ==
  \A i \in 1..Len(bodies) :
    Desired(sim.trailLen, bodies[i].id) = 0 =>
      bodies[i].id \notin (DOMAIN trailsRef) \cup (DOMAIN trailIdxRef)

\* C5, as the code has it: for a body whose configured length is 0, once
\* the render that follows the change has committed no line is drawn, and if
\* trails are enabled neither a buffer nor a cursor is retained.
C5_NoBufferAtZeroWhenSettled ==
  \A i \in 1..Len(bodies) :
    Desired(sim.trailLen, bodies[i].id) = 0 =>
      /\ Settled => bodies[i].id \notin (DOMAIN trailsRef) \cup (DOMAIN trailIdxRef)
      /\ ~pending.render => ~lines[i].drawn

\* A settled state, after frames ran, in which a body is configured with
\* length 0 and its buffer is gone.
C5_Witness ==
  /\ Settled
  /\ hist # << >>
  /\ \E i \in 1..Len(bodies) :
       /\ Desired(sim.trailLen, bodies[i].id) = 0
       /\ bodies[i].id \notin DOMAIN trailsRef

\* C6: once a reset has been processed, the latest body array descends from
\* the set that reset constructed, and every slot of every trail buffer
\* holds a position of an array that does.
C6_ResetWins ==
  /\ epoch.bodies = epoch.resets
  /\ \A id \in DOMAIN slotEpoch :
       \A k \in DOMAIN slotEpoch[id] : slotEpoch[id][k] = epoch.resets

\* C7: every executed frame stepped the array that was the latest `bodies`
\* state when it ran.
C7_FrameStepsLatest ==
  \A k \in 1..Len(hist) : hist[k].input = hist[k].latest

\* C8: a frame callback whose `running` is false leaves the body array,
\* the trail buffers and the cursors unchanged.
C8_PausedFrameChangesNothing ==
  [][(calls' = calls + 1 /\ ~view.sim.running)
       => UNCHANGED <<bodies, trailsRef, trailIdxRef>>]_vars

\* A frame callback was invoked while paused, after a change of another
\* parameter and after frames that did run.
C8_Witness ==
  /\ calls > Len(hist)
  /\ hist # << >>
  /\ ~view.sim.running
  /\ ops > 1

\* C9: the array a frame produced has the length, the order and the ids of
\* the array it stepped, and differs from it in positions and velocities
\* only.
C9_FrameKeepsShape ==
  \A k \in 1..Len(hist) : SameButMotion(hist[k].input, hist[k].next)

\* Frames ran with both integrators and moved the bodies.
C9_Witness ==
  /\ \E k \in 1..Len(hist) :
       hist[k].integrator = "rk4" /\ hist[k].next # hist[k].input
  /\ \E k \in 1..Len(hist) :
       hist[k].integrator = "leapfrog" /\ hist[k].next # hist[k].input

\* C10: after a frame, the array it stepped holds the values it held
\* before, and the new array shares no vector with it.
C10_FrameLeavesInputIntact ==
  \A k \in 1..Len(hist) : hist[k].old = hist[k].input /\ ~hist[k].aliased

\* An RK4 frame, whose stage evaluations rewrite positions, moved a planet.
C10_Witness ==
  \E k \in 1..Len(hist) :
    /\ hist[k].integrator = "rk4"
    /\ hist[k].next[2].position # hist[k].input[2].position
    /\ hist[k].next[2].velocity # hist[k].input[2].velocity

\* ------------------------------------------------------------------------
\* Properties of the time step
\* ------------------------------------------------------------------------

\* The substep ceiling of the stability policy: 0.05 simulated days.
hMax == FDec(5, 2)

\* ceil(a) as an integer
FCeil(a) == -FFloor(FNeg(a))

\* a <= b
FLe(a, b) == ~FLt(b, a)

\* n = ceil(H / hMax), the substeps the stability policy asks for
SubstepsFor(H) == FCeil(FDiv(H, hMax))

\* The steps `steps` are SubstepsFor(H) equal steps of size H / n.
Substepped(H, steps) ==
  /\ Len(steps) = SubstepsFor(H)
  /\ \A i \in 1..Len(steps) :
       steps[i] = FDiv(H, FInt(SubstepsFor(H))) /\ FLe(steps[i], hMax)

\* C11: every frame with H = dt * timeScale > 0 advances by
\* n = ceil(H / hMax) substeps of equal size H / n, none larger than hMax.
C11_FrameIsSubstepped ==
  \A k \in 1..Len(hist) :
    FLt(FZero, FMul(hist[k].dt, hist[k].timeScale))
      => Substepped(FMul(hist[k].dt, hist[k].timeScale), hist[k].steps)

\* C12: the values handed to the integrator in a frame satisfy dt <= 0.25
\* and timeScale <= 100, the simulated time of the frame is at most 25 days
\* and the frame takes at most ceil(25 / hMax) steps.
C12_FrameWorkIsBounded ==
  \A k \in 1..Len(hist) :
    /\ FLe(hist[k].dt, FDec(25, 2))
    /\ FLe(hist[k].timeScale, FInt(100))
    /\ FLe(FMul(hist[k].dt, hist[k].timeScale), FInt(25))
    /\ Len(hist[k].steps) <= SubstepsFor(FInt(25))

\* A frame ran while the store held dt > 0.25 and timeScale > 100, and the
\* integrator was handed 0.25 and 100.
C12_Witness ==
  /\ hist # << >>
  /\ FLt(FDec(25, 2), view.sim.dt)
  /\ FLt(FInt(100), view.sim.timeScale)
  /\ hist[Len(hist)].dt = FDec(25, 2)
  /\ hist[Len(hist)].timeScale = FInt(100)
  /\ ~pending.render
  /\ bodies = hist[Len(hist)].next

\* ------------------------------------------------------------------------
\* Properties of the engine's functions
\* ------------------------------------------------------------------------

\* The calls of kind op made so far.
CallsOf(op) == {k \in 1..Len(hist) : hist[k].op = op}

\* Every body has the position and the velocity it had.
NoMotion(a, b) ==
  /\ Len(a) = Len(b)
  /\ \A i \in 1..Len(a) :
       a[i].position = b[i].position /\ a[i].velocity = b[i].velocity

\* C13: with dt <= 0 or timeScale <= 0 a frame advance produces no motion:
\* every position and velocity after it equals the one before.
C13_NoMotionWithoutTime ==
  \A k \in CallsOf("step") :
    (FLe(sim.dt, FZero) \/ FLe(sim.timeScale, FZero))
      => NoMotion(hist[k].input, hist[k].next)

\* Results that the claims state for real numbers are compared up to the
\* rounding of the arithmetic: a few units in the last place of a mantissa.
Tolerance == Norm(1, 2 - DIGITS)

FAbs(a) == <<Abs(a[1]), a[2]>>

\* The largest magnitude among the components of u and v.
Magnitude(u, v) ==
  FMax(FMax(FMax(FAbs(u[1]), FAbs(u[2])), FAbs(u[3])),
       FMax(FMax(FAbs(v[1]), FAbs(v[2])), FAbs(v[3])))

\* u and v agree up to rounding, relative to the magnitude `scale`.
NearBy(u, v, scale) ==
  \A c \in 1..3 : FLe(FAbs(FSub(u[c], v[c])), FMul(Tolerance, scale))

Near(u, v) == NearBy(u, v, Magnitude(u, v))

\* The bodies of `arr` that nothing accelerates.
Unaccelerated(arr) ==
  {i \in 1..Len(arr) :
     accumulateAccelerations(arr, sim.massScale, FALSE, 0)[i] = VZero}

\* C14: velScale multiplies only the velocity term of the position update:
\* one frame leaves the velocity of a body that nothing accelerates exactly
\* unchanged and moves its position by velocity * H * velScale.
C14_VelScaleOnlyDrifts ==
  \A k \in CallsOf("step") :
    \A i \in Unaccelerated(hist[k].input) :
      /\ hist[k].next[i].velocity = hist[k].input[i].velocity
      /\ Near(hist[k].next[i].position,
              AddScaled(hist[k].input[i].position, hist[k].input[i].velocity,
                        FMul(hist[k].steps[1], sim.velScale)))

\* The same for velScale = 1 only, where the knob has no effect.
C14_AtUnitVelScale == sim.velScale = FInt(1) => C14_VelScaleOnlyDrifts

\* The steps of the first n calls, in order.
RECURSIVE AllSteps(_, _)
AllSteps(h, n) == IF n = 0 THEN << >> ELSE AllSteps(h, n - 1) \o h[n].steps

\* One frame advance with dt = 1.0, timeScale = 1 from the array the run
\* started from, with the run's other settings.
OneDayFrame ==
  FrameAdvance(view.bodies, [sim EXCEPT !.dt = FInt(1), !.timeScale = FInt(1)])

\* C15: ten successive frame advances with dt = 0.1, timeScale = 1 perform
\* the same sequence of substeps (same count, same step size) as one frame
\* advance with dt = 1.0, timeScale = 1 from the same array.
C15_TenTenthsIsOneDay ==
  (calls = 10 /\ sim.dt = FDec(1, 1) /\ sim.timeScale = FInt(1))
    => AllSteps(hist, 10) = OneDayFrame.steps

\* The array, or the per-body sequence, without its p-th element.
Without(arr, p) == SubSeq(arr, 1, p - 1) \o SubSeq(arr, p + 1, Len(arr))

\* The test particles of an array.
ZeroMass(arr) == {p \in 1..Len(arr) : FIsZero(arr[p].mass)}

\* Other places for a test particle.
Elsewhere == {Vec3(FInt(5), FInt(-5), FInt(5)), Vec3(FDec(5, 1), FZero, FZero)}

\* The accelerations of the pairwise loop, as the Scene asks for them.
Accel(arr) == accumulateAccelerations(arr, sim.massScale, FALSE, 0)

\* The array a frame advance of `arr` with the run's settings produces.
Stepped(arr) == FrameAdvance(arr, sim).next

\* p is pulled by another body of the array.
Attracted(arr, p) ==
  \E j \in 1..Len(arr) : j # p /\ ~FIsZero(arr[j].mass)

\* C16: a body of mass 0 exerts no acceleration on any other body: the
\* accelerations of the others, and their positions and velocities after a
\* frame, are the same with the body present, absent or placed elsewhere;
\* the body itself is accelerated by the others.
C16_TestParticleExertsNothing ==
  \A p \in ZeroMass(bodies) :
    /\ Without(Accel(bodies), p) = Accel(Without(bodies, p))
    /\ \A q \in Elsewhere :
         Without(Accel([bodies EXCEPT ![p].position = q]), p)
           = Accel(Without(bodies, p))
    /\ Attracted(bodies, p) => Accel(bodies)[p] # VZero
    /\ \A k \in CallsOf("step") :
         k = Len(hist) =>
           Without(hist[k].next, p) = Stepped(Without(hist[k].input, p))

\* After two frames of Sun, payload and Earth: the payload is pulled, and
\* the Earth it might have disturbed has been moved by the Sun.
C16_Witness ==
  /\ calls = 2
  /\ Len(bodies) = 3
  /\ ZeroMass(bodies) = {2}
  /\ Accel(bodies)[2] # VZero
  /\ Accel(bodies)[3] # VZero
  /\ bodies[3].velocity # view.bodies[3].velocity
  /\ bodies[3].position # view.bodies[3].position

\* The total mass and the momentum of an array.
TotalMass(arr) == SumTo([i \in 1..Len(arr) |-> arr[i].mass], Len(arr))
Momentum(arr) ==
  Vec3(SumTo([i \in 1..Len(arr) |-> FMul(arr[i].mass, arr[i].velocity[1])], Len(arr)),
       SumTo([i \in 1..Len(arr) |-> FMul(arr[i].mass, arr[i].velocity[2])], Len(arr)),
       SumTo([i \in 1..Len(arr) |-> FMul(arr[i].mass, arr[i].velocity[3])], Len(arr)))

\* The largest magnitude of a velocity component in an array.
Speed(arr) ==
  LET S == {FAbs(arr[i].velocity[c]) : i \in 1..Len(arr), c \in 1..3}
  IN  CHOOSE x \in S : \A y \in S : FLe(y, x)

\* The change of body i's velocity from array a to array b.
Shifted(a, b, i) ==
  Vec3(FSub(b[i].velocity[1], a[i].velocity[1]),
       FSub(b[i].velocity[2], a[i].velocity[2]),
       FSub(b[i].velocity[3], a[i].velocity[3]))

\* Arrays a and b differ at most in their velocities, and in those by
\* rounding only, relative to the magnitude `scale`.
SameUpToRounding(a, b, scale) ==
  /\ Len(a) = Len(b)
  /\ \A i \in 1..Len(a) :
       /\ [b[i] EXCEPT !.velocity = a[i].velocity] = a[i]
       /\ NearBy(a[i].velocity, b[i].velocity, scale)

\* C17: after zeroSystemMomentum on an array of positive total mass the
\* mass-weighted sum of the velocities is the zero vector and every velocity
\* was shifted by the same vector; with total mass 0 nothing changes; a
\* second application changes nothing.
C17_MomentumIsZeroed ==
  \A k \in CallsOf("zero") :
    LET a == hist[k].input
        b == hist[k].next
    IN  /\ Len(b) = Len(a)
        /\ \A i \in 1..Len(a) : [b[i] EXCEPT !.velocity = a[i].velocity] = a[i]
        /\ FIsZero(TotalMass(a)) => b = a
        /\ FLt(FZero, TotalMass(a)) =>
             /\ NearBy(Momentum(b), VZero, FMul(TotalMass(a), Speed(a)))
             /\ \A i, j \in 1..Len(a) :
                  NearBy(Shifted(a, b, i), Shifted(a, b, j), Speed(a))
        /\ SameUpToRounding(b, zeroSystemMomentum(b), Speed(a))

\* Two massive moving bodies had their momentum removed, then the operation
\* was applied again; and an array of total mass 0 went through it.
C17_Witness ==
  /\ Len(hist) = 2
  /\ hist[1].op = "zero" /\ hist[2].op = "zero"
  /\ hist[1].input = Binary
  /\ hist[1].next # hist[1].input
  /\ hist[2].input = hist[1].next

\* a and b agree up to rounding.
FNear(a, b) ==
  FLe(FAbs(FSub(a, b)), FMul(Tolerance, FMax(FAbs(a), FAbs(b))))

\* The offset of body b from body c, and the inner product of two vectors.
Offset(b, c) ==
  Vec3(FSub(b.position[1], c.position[1]), FSub(b.position[2], c.position[2]),
       FSub(b.position[3], c.position[3]))
Dot(u, v) == FAdd(FAdd(FMul(u[1], v[1]), FMul(u[2], v[2])), FMul(u[3], v[3]))
Length(u) == Hypot(u[1], u[2], u[3])

\* Body i of `after` moves on a circle around the body `sun`: its speed is
\* sqrt(G * M / r) and its velocity is orthogonal to its radius vector.
Circular(after, i, sun) ==
  LET rv == Offset(after[i], sun)
      v  == after[i].velocity
  IN  /\ FNear(Length(v), FSqrt(FDiv(FMul(G, sun.mass), Length(rv))))
      /\ FLe(FAbs(Dot(v, rv)), FMul(Tolerance, FMul(Length(v), Length(rv))))
      /\ v # VZero

\* The radius vector of body i is parallel to the normal of the XY plane.
OnAxis(arr, i, sun) ==
  FIsZero(Offset(arr[i], sun)[1]) /\ FIsZero(Offset(arr[i], sun)[2])

\* The bodies seedCircularVelocities(arr, sunId, _) is to seed: those at a
\* distance r > 0 from a central body of mass M > 0.
Seeded(arr, sunId) ==
  IF FindIndex(arr, sunId) = 0 \/ ~FLt(FZero, arr[FindIndex(arr, sunId)].mass)
  THEN {}
  ELSE {i \in 1..Len(arr) :
          /\ i # FindIndex(arr, sunId)
          /\ ~FIsZero(Length(Offset(arr[i], arr[FindIndex(arr, sunId)])))}

\* Call k seeded body i as the claim states.
SeededCircular(k, i) ==
  /\ Circular(hist[k].next, i, hist[k].input[FindIndex(hist[k].input, hist[k].sunId)])
  /\ seedCircularVelocities(hist[k].input, hist[k].sunId, ~hist[k].clockwise)[i].velocity
       = Vec3(FNeg(hist[k].next[i].velocity[1]), FNeg(hist[k].next[i].velocity[2]),
              FNeg(hist[k].next[i].velocity[3]))

\* C18: after seedCircularVelocities every non-central body at distance
\* r > 0 from a central body of mass M > 0 has a velocity of magnitude
\* sqrt(G * M / r) orthogonal to its radius vector, also when the radius
\* vector is parallel to the plane normal, and the retrograde sense yields
\* the negated velocity.
C18_SeedIsCircular ==
  \A k \in CallsOf("seed") :
    \A i \in Seeded(hist[k].input, hist[k].sunId) : SeededCircular(k, i)

\* The same for the bodies off the axis through the central body only.
C18_OffAxis ==
  \A k \in CallsOf("seed") :
    \A i \in Seeded(hist[k].input, hist[k].sunId) :
      ~OnAxis(hist[k].input, i, hist[k].input[FindIndex(hist[k].input, hist[k].sunId)])
        => SeededCircular(k, i)

\* C19: an operation whose referent body is absent changes nothing:
\* seedCircularVelocities with a central id not in the array, and
\* ensurePayloadGEO on an array without the body earth, leave the array as
\* it was.
C19_AbsentReferentIsNoOp ==
  /\ \A k \in CallsOf("seed") :
       FindIndex(hist[k].input, hist[k].sunId) = 0 => hist[k].next = hist[k].input
  /\ \A k \in CallsOf("geo") :
       FindIndex(hist[k].input, "earth") = 0 => hist[k].next = hist[k].input

\* Moving bodies without a `nemesis` and without an Earth went through
\* both operations.
C19_Witness ==
  /\ Len(hist) = 2
  /\ hist[1].op = "seed" /\ FindIndex(hist[1].input, hist[1].sunId) = 0
  /\ hist[2].op = "geo" /\ FindIndex(hist[2].input, "earth") = 0
  /\ Len(bodies) = 2
  /\ ~FIsZero(Speed(bodies))
  /\ bodies = view.bodies

\* ------------------------------------------------------------------------
\* Properties of the body arrays
\* ------------------------------------------------------------------------

\* The ids of an array are pairwise distinct and no mass is negative.
WellFormed(arr) ==
  /\ \A i, j \in 1..Len(arr) : arr[i].id = arr[j].id => i = j
  /\ \A i \in 1..Len(arr) : FLe(FZero, arr[i].mass)

\* C20: in every reachable body array, after any sequence of construction,
\* reset, frame advance, payload spawn or respawn and burn, the ids are
\* pairwise distinct (at most one payload) and every mass is >= 0.
C20_ArraysAreWellFormed ==
  /\ WellFormed(bodies)
  /\ WellFormed(view.bodies)
  /\ \A k \in 1..Len(hist) : WellFormed(hist[k].next)

\* The payload was respawned over an existing one and burned, frames ran,
\* and the latest array holds the one payload.
C20_Witness ==
  /\ sim.payloadReset > 0
  /\ sim.thrustPulse > 0
  /\ ~pending.render
  /\ hist # << >>
  /\ FindIndex(view.bodies, "payload") > 0
  /\ FindIndex(bodies, "payload") > 0
  /\ bodies # hist[Len(hist)].next

\* ------------------------------------------------------------------------
\* Properties of the payload
\* ------------------------------------------------------------------------

\* v / |v|, the direction of a nonzero velocity
UnitOf(v) ==
  Vec3(FDiv(v[1], Length(v)), FDiv(v[2], Length(v)), FDiv(v[3], Length(v)))

\* The configured velocity increment, in AU per day
DeltaV == FMul(sim.dvMps, M_PER_S_TO_AU_PER_DAY)

\* The array after mount and the spawn of the payload, before any burn.
Spawned == SpawnUpdate(FreshBodies)

\* C21: the delta-v burn is applied once per trigger: after n firings of the
\* thrust trigger, and nothing else, the payload's velocity is the spawned
\* one plus n increments of the configured magnitude along its direction,
\* its position and every other body are unchanged; without a firing (at
\* start-up, on spawn) there is no increment.  Stated of the states in which
\* the effects of the mount and of every firing have run.
C21_BurnOncePerTrigger ==
  (hist = << >> /\ ops = sim.thrustPulse
              /\ view.sim.thrustPulse = sim.thrustPulse
              /\ pending.effects = {})
    => /\ Len(bodies) = Len(Spawned)
       /\ \A i \in 1..Len(Spawned) :
            [bodies[i] EXCEPT !.velocity = Spawned[i].velocity] = Spawned[i]
       /\ \A i \in 1..Len(Spawned) :
            Spawned[i].id # "payload" => bodies[i].velocity = Spawned[i].velocity
       /\ \A i \in 1..Len(Spawned) :
            Spawned[i].id = "payload" =>
              /\ sim.thrustPulse = 0 => bodies[i].velocity = Spawned[i].velocity
              /\ Near(bodies[i].velocity,
                      AddScaled(Spawned[i].velocity, UnitOf(Spawned[i].velocity),
                                FMul(FInt(sim.thrustPulse), DeltaV)))

\* ------------------------------------------------------------------------
\* Properties of the force evaluation
\* ------------------------------------------------------------------------

\* The pairs i < j of an array, and those at the same place.
Pairs(arr) == {<<i, j>> \in (1..Len(arr)) \X (1..Len(arr)) : i < j}
Touching(arr) == {p \in Pairs(arr) : arr[p[1]].position = arr[p[2]].position}

\* No acceleration yet: new Array(N).fill(0)
NoAccel(arr) == [k \in 1..Len(arr) |-> VZero]

\* C22: the softened squared distance used as divisor is strictly positive
\* for every pair of bodies, coincident ones included, so the force
\* computation never divides by zero; two coincident bodies contribute zero
\* acceleration to each other.
C22_SofteningKeepsDivisorPositive ==
  /\ \A p \in Pairs(bodies) :
       /\ FLt(FZero, SoftenedR2(Offset(bodies[p[2]], bodies[p[1]])))
       /\ FLt(FZero, FMul(FSqrt(SoftenedR2(Offset(bodies[p[2]], bodies[p[1]]))),
                          SoftenedR2(Offset(bodies[p[2]], bodies[p[1]]))))
  /\ \A p \in Touching(bodies) :
       PairStep(bodies, sim.massScale, NoAccel(bodies), p[1], p[2]) = NoAccel(bodies)
  /\ Len(Accel(bodies)) = Len(bodies)

\* A frame ran on two massive bodies at the same place and a third one
\* that pulls on both.
C22_Witness ==
  /\ calls = 1
  /\ Touching(hist[1].input) = {<<1, 2>>}
  /\ ZeroMass(hist[1].input) = {}
  /\ Accel(hist[1].input)[1] # VZero
  /\ hist[1].next[1].position # hist[1].input[1].position

\* ------------------------------------------------------------------------
\* Properties of the continuous thrust
\* ------------------------------------------------------------------------

\* This step is a frame that steps an array with the thrusting body's
\* origin (Earth) and the target (Mars) while the autopilot is switched on.
ThrustFrame ==
  /\ Len(hist') = Len(hist) + 1
  /\ sim.controls.brachistochrone
  /\ FindIndex(hist'[Len(hist')].input, "earth") # 0
  /\ FindIndex(hist'[Len(hist')].input, "mars") # 0

\* C23: the continuous-thrust autopilot starts in its accelerating phase:
\* a frame that runs with the autopilot on and the target present hands
\* the integrator an extra acceleration for the thrusting body.
C23_AutopilotThrusts ==
  [][ThrustFrame => hist'[Len(hist')].extra # Undefined]_vars

\* ------------------------------------------------------------------------
\* Properties of the Leapfrog step
\* ------------------------------------------------------------------------

\* Array c holds the bodies of array a with the positions and velocities
\* of a up to rounding, relative to the magnitudes they had in a and in b.
Returned(c, a, b) ==
  /\ Len(c) = Len(a)
  /\ \A i \in 1..Len(a) :
       /\ NearBy(c[i].position, a[i].position,
                 Magnitude(a[i].position, b[i].position))
       /\ NearBy(c[i].velocity, a[i].velocity,
                 Magnitude(a[i].velocity, b[i].velocity))
       /\ [c[i] EXCEPT !.position = a[i].position, !.velocity = a[i].velocity] = a[i]

\* The arithmetic resolves the offsets of an array: any two bodies are at
\* the same place or apart by more than the rounding of their positions.
Resolved(arr) ==
  \A p \in Pairs(arr) \ Touching(arr) :
    FLe(FMul(Tolerance, Magnitude(arr[p[1]].position, arr[p[2]].position)),
        Magnitude(Offset(arr[p[1]], arr[p[2]]), Offset(arr[p[1]], arr[p[2]])))

\* The steps back of a Leapfrog run with velScale = 1 on resolved arrays.
LeapfrogReturns ==
  {k \in CallsOf("back") :
     /\ sim.integrator = "leapfrog"
     /\ sim.velScale = FInt(1)
     /\ Resolved(hist[k].start)
     /\ Resolved(hist[k].input)}

\* C24: Leapfrog is time-reversible at a fixed step: with velScale = 1 and
\* no auxiliary acceleration, a step by h followed by a step by -h (or by
\* a step by h on the negated velocities, negated again) returns the
\* original positions and velocities, up to rounding.
C24_LeapfrogIsReversible ==
  \A k \in LeapfrogReturns : Returned(hist[k].next, hist[k].start, hist[k].input)

\* The step changed body i's position and velocity by more than rounding:
\* the array after it is not the array before it in the sense of Returned.
Displaced(a, b, i) ==
  /\ ~NearBy(b[i].position, a[i].position, Magnitude(a[i].position, b[i].position))
  /\ ~NearBy(b[i].velocity, a[i].velocity, Magnitude(a[i].velocity, b[i].velocity))

\* A Leapfrog frame of non-zero step moved and accelerated a moving body
\* of an interacting pair by more than the rounding, and was undone.
C24_Witness ==
  /\ LeapfrogReturns # {}
  /\ Len(hist) = 2
  /\ hist[2].way = "negative step"
  /\ ~FIsZero(hist[1].steps[1])
  /\ \E i \in 1..Len(hist[1].input) :
       /\ hist[1].input[i].velocity # VZero
       /\ Displaced(hist[1].input, hist[1].next, i)

\* ------------------------------------------------------------------------
\* Properties of the trail capacity
\* ------------------------------------------------------------------------

\* The cap the performance notes state: 2000 points per body.
TrailCap == Scaled(2000)

\* C26: no body's trail ever holds more than 2000 points, whatever frames
\* run and whatever trail lengths are set: neither a buffer's capacity nor
\* the number of points of a drawn line exceeds the cap.
C26_TrailIsCapped ==
  /\ \A id \in DOMAIN trailsRef : Capacity(id) <= TrailCap
  /\ \A id \in DOMAIN lines : Len(lines[id].points) <= TrailCap

\* ------------------------------------------------------------------------
\* Properties of the order of a step
\* ------------------------------------------------------------------------

\* The positions of an array, body by body.
PositionsOf(arr) == SeqOf([i \in 1..Len(arr) |-> arr[i].position])

\* Every velocity of arr advanced by the accelerations a over hh.
Kicked(arr, a, hh) ==
  SeqOf([i \in 1..Len(arr) |->
     [arr[i] EXCEPT !.velocity = AddScaled(@, a[i], hh)]])

\* Every position of arr advanced by its body's velocity over h.
Drifted(arr, h) ==
  SeqOf([i \in 1..Len(arr) |->
     [arr[i] EXCEPT !.position = AddScaled(@, arr[i].velocity, h)]])

\* Every velocity of arr multiplied by s.
Damped(arr, s) ==
  SeqOf([i \in 1..Len(arr) |-> [arr[i] EXCEPT !.velocity = Scale(@, s)]])

\* Kick, drift, kick over h, each phase on all bodies together, the forces
\* evaluated on the whole array before the first and before the last phase.
KickDriftKick(arr, h) ==
  With(Drifted(Kicked(arr, Accel(arr), FMul(h, FDec(5, 1))), h), LAMBDA mid :
    Damped(Kicked(mid, Accel(mid), FMul(h, FDec(5, 1))), sim.velScale))

\* C27: a Leapfrog step is kick-drift-kick on all bodies together: the
\* forces are evaluated at the positions the step starts from, every
\* velocity is half-kicked before any position moves, every position
\* drifts with the half-kicked velocity, the forces are evaluated again at
\* the new positions of all bodies, and the velocities are half-kicked
\* again.  Leapfrog evaluates the forces exactly twice per step and RK4
\* exactly four times, first at the positions the step starts from.
C27_KickDriftKick ==
  \A k \in CallsOf("step") :
    /\ sim.integrator = "leapfrog" =>
         /\ hist[k].forces = <<PositionsOf(hist[k].input), PositionsOf(hist[k].next)>>
         /\ hist[k].next = KickDriftKick(hist[k].input, hist[k].steps[1])
    /\ sim.integrator = "rk4" =>
         /\ Len(hist[k].forces) = 4
         /\ hist[k].forces[1] = PositionsOf(hist[k].input)

\* Leapfrog stepped three interacting bodies whose accelerations differ
\* before and after the drift.
C27_Witness ==
  /\ sim.integrator = "leapfrog"
  /\ calls = 1
  /\ Len(hist[1].input) = 3
  /\ Accel(hist[1].input) # Accel(hist[1].next)
  /\ \A i \in 1..3 : hist[1].next[i].position # hist[1].input[i].position

\* ------------------------------------------------------------------------
\* Properties of the pairwise accumulation
\* ------------------------------------------------------------------------

\* The calls of either integrator's two variants.
BothCalls == CallsOf("euler") \cup CallsOf("rk4")

Impulse(arr) ==
  LET S == {FAbs(FMul(arr[i].mass, arr[i].velocity[c])) :
              i \in 1..Len(arr), c \in 1..3}
  IN  CHOOSE x \in S : \A y \in S : FLe(y, x)

\* C29: in full n-body mode with velScale = 1 and no auxiliary
\* acceleration a step of either integrator preserves the total momentum
\* (up to rounding, relative to the largest momentum of a body), and a
\* system that zeroSystemMomentum initialised keeps zero total momentum
\* after any number of steps.
C29_MomentumIsPreserved ==
  sim.velScale = FInt(1) =>
    /\ \A k \in CallsOf("step") :
         NearBy(Momentum(hist[k].next), Momentum(hist[k].input),
                FMax(Impulse(hist[k].input), Impulse(hist[k].next)))
    /\ (view.bodies \in {Balanced, TightBalanced} /\ CallsOf("step") # {}) =>
         NearBy(Momentum(bodies), VZero, Impulse(bodies))

\* The momentum of body i of an array.
MomentumOf(arr, i) == Scale(arr[i].velocity, arr[i].mass)

\* Two massive bodies without total momentum were stepped as often as the
\* run allows, and the first step changed the momentum of each by more
\* than the rounding.
C29_Witness ==
  /\ sim.velScale = FInt(1)
  /\ view.bodies = TightBalanced
  /\ calls = MaxSteps
  /\ CallsOf("step") = 1..MaxSteps
  /\ \A i \in 1..2 :
       ~NearBy(MomentumOf(hist[1].next, i), MomentumOf(hist[1].input, i),
               FMax(Impulse(hist[1].input), Impulse(hist[1].next)))

\* ------------------------------------------------------------------------
\* Properties of the trail cursors
\* ------------------------------------------------------------------------

\* C30: every buffer has a cursor and every cursor a buffer, and each
\* cursor idx satisfies 0 <= idx < K for its buffer of capacity K >= 1, so
\* that a write stays inside the buffer and the linearisation reads exactly
\* the K slots of the buffer; also after a reset and after a change of a
\* trail length.
C30_CursorsAreInRange ==
  /\ DOMAIN trailsRef = DOMAIN trailIdxRef
  /\ \A id \in DOMAIN trailsRef :
       /\ Capacity(id) >= 1
       /\ Len(trailsRef[id]) = 3 * Capacity(id)
       /\ trailIdxRef[id] >= 0
       /\ trailIdxRef[id] < Capacity(id)
       /\ Len(Linearize(trailsRef[id], trailIdxRef[id])) = Capacity(id)

\* After a reset and a change of Earth's trail length to three slots, both
\* rendered, frames have moved Earth's cursor off slot 0.
C30_Witness ==
  /\ sim.resetSignal > 0
  /\ Settled
  /\ "earth" \in DOMAIN trailsRef
  /\ Capacity("earth") = 3
  /\ Desired(SimStore.trailLen, "earth") # 3
  /\ trailIdxRef["earth"] > 0
  /\ hist # << >>

====
